---- MODULE Spec2Model ----
(***************************************************************************)
(* FilterRegistry (src/js/defaultTextFilters.js, class FilterRegistry):    *)
(* the named filter-pipeline engine.  The registry instance owns a Map     *)
(* from pipeline name to a ListEntry {steps, options}; apply/applyList run *)
(* the steps of one entry over a string, one async function activation    *)
(* per call.                                                               *)
(*                                                                         *)
(* Strings are modelled as sequences of tokens; every JavaScript value a   *)
(* step can return or an input can be is a record [k, s] (a string, null,  *)
(* undefined or an error object).  Step functions are drawn from a fixed   *)
(* table of behaviours (FnCall).                                           *)
(***************************************************************************)
EXTENDS Integers, Sequences, FiniteSets, TLC

\* ------------------------------------------------------------------ bounds
\* insert is not offered on a list that already has this many steps
MaxSteps == 3
\* number of insert/removeAt/enable calls in one behaviour
MaxMut == 2

\* ------------------------------------------------------------------ values
Names == {"p", "q"}
\* names register rejects: name.trim() === ""
BlankNames == {"", " "}
\* a value whose typeof is not "string"
NonStringNames == {"#42"}
NameInputs == Names \cup BlankNames \cup NonStringNames
AdhocName == "<adhoc>"

StrVal(s) == [k |-> "str", s |-> s]
NullVal == [k |-> "null", s |-> <<>>]
UndefVal == [k |-> "undef", s |-> <<>>]
ErrVal(e) == [k |-> "err", s |-> <<e>>]
NoVal == [k |-> "none", s |-> <<>>]

\* an args value: absent (undefined), an array of strings, or some non-array
NoArgs == [k |-> "absent", v |-> <<>>]
ArrArgs(v) == [k |-> "array", v |-> v]
OtherArgs == [k |-> "other", v |-> <<>>]

\* the step functions of the model; "nofn" marks a record without callable fn
FnIds == {"a", "b", "t", "r", "n", "m", "u", "v"}

\* ------------------------------------------------------- step-like inputs
BareFn(f) == [k |-> "fn", fn |-> f, name |-> "undefined", args |-> NoArgs, enabled |-> "absent"]
StepObj(f, nm, ar, en) == [k |-> "obj", fn |-> f, name |-> nm, args |-> ar, enabled |-> en]
BadItem == [k |-> "bad", fn |-> "nofn", name |-> "undefined", args |-> NoArgs, enabled |-> "absent"]

ObjA1 == StepObj("a", "nm", ArrArgs(<< <<"s1">> >>), "absent")
ObjBoff == StepObj("b", "undefined", ArrArgs(<< <<"s1">>, <<"s2">> >>), "false")
ObjAother == StepObj("a", "undefined", OtherArgs, "true")
ObjNoFn == StepObj("nofn", "nm", NoArgs, "absent")

\* what insert is called with
StepLikes == {BareFn("a"), BareFn("t"), ObjBoff, ObjNoFn, BadItem}

ListNull == [k |-> "null", items |-> <<>>]
ListOne(it) == [k |-> "single", items |-> <<it>>]
ListArr(its) == [k |-> "array", items |-> its]

\* what register and applyList are called with
FnLists ==
  { ListNull,
    ListArr(<<>>),
    ListOne(BareFn("a")),
    ListArr(<<ObjAother, BareFn("b")>>),
    ListArr(<<ObjA1, BareFn("t"), BareFn("b")>>),
    ListArr(<<BareFn("r"), BareFn("t"), ObjBoff>>),
    ListArr(<<BareFn("n"), BareFn("m"), BareFn("a")>>),
    ListArr(<<BareFn("u"), BareFn("v")>>),
    ListArr(<<BareFn("a"), ObjNoFn>>),
    ListArr(<<BadItem, BareFn("a")>>) }

\* the stopOnError slot of an options object: key absent, or one of the values
SoeVals == {"true", "false", "undefined"}
OptInputs == SoeVals \cup {"absent"}

InputVals == {StrVal(<<"x">>), NullVal}
InvokeArgVals == {NoArgs, ArrArgs(<< <<"i1">> >>)}
HookKinds == {"none", "ok", "fail"}
Hooks(b, a, e) == [beforeApply |-> b, afterApply |-> a, onError |-> e]
\* the hook sets a registry is constructed with
HookConfigs ==
  { Hooks("none", "none", "none"),
    Hooks("ok", "ok", "ok"),
    Hooks("fail", "ok", "ok"),
    Hooks("ok", "fail", "fail"),
    Hooks("none", "ok", "none") }

\* ------------------------------------------------------------------- state
VARIABLES
  hooks,     \* this._hooks: per hook, not a function / returns / throws or rejects
  defaults,  \* this._defaults
  map,       \* this._map: sequence of [key, val] in insertion order, val a ListEntry
  runs,      \* the activations of apply/applyList
  last,      \* the most recent facade call and how it ended
  lastReg,   \* per name: the most recent successful register/unregister
  nmut,      \* insert/removeAt/enable calls made so far
  chain      \* the activation of runTextChains

vars == <<hooks, defaults, map, runs, last, lastReg, nmut, chain>>

\* --------------------------------------------------------------- JS Map
MapKeys(m) == [j \in 1..Len(m) |-> m[j].key]
MapHas(m, n) == \E j \in 1..Len(m) : m[j].key = n
MapIdx(m, n) == CHOOSE j \in 1..Len(m) : m[j].key = n
MapGet(m, n) == m[MapIdx(m, n)].val
\* mutant: an existing key keeps its value
MapSetIfAbsent(m, n, v) ==
  IF MapHas(m, n) THEN m ELSE Append(m, [key |-> n, val |-> v])

MapSet(m, n, v) ==
  IF MapHas(m, n) THEN [m EXCEPT ![MapIdx(m, n)].val = v]
  ELSE Append(m, [key |-> n, val |-> v])
\* mutant: nothing is deleted
MapDeleteNothing(m, n) == m

MapDelete(m, n) ==
  IF MapHas(m, n)
  THEN LET d == MapIdx(m, n) IN
       [j \in 1..(Len(m) - 1) |-> IF j < d THEN m[j] ELSE m[j + 1]]
  ELSE m

\* ------------------------------------------------------------ normalizer
\* mutant: an object without a callable fn is taken as a step
NormalizeLenient(item) ==
  [err |-> IF item.k = "bad" THEN "InvalidStep" ELSE "ok",
   step |-> [fn |-> item.fn, name |-> item.name, args |-> item.args,
             enabled |-> (item.enabled # "false")]]

\* _normalizeToStep: a FilterStep, or the error thrown
NormalizeToStep(item) ==
  IF item.k = "fn"
  THEN [err |-> "ok",
        step |-> [fn |-> item.fn, name |-> "undefined", args |-> NoArgs, enabled |-> TRUE]]
  ELSE IF item.k = "obj"
  THEN IF item.fn = "nofn"
       THEN [err |-> "InvalidStep",
             step |-> [fn |-> "nofn", name |-> "undefined", args |-> NoArgs, enabled |-> TRUE]]
       ELSE [err |-> "ok",
             step |-> [fn |-> item.fn, name |-> item.name, args |-> item.args,
                       enabled |-> (item.enabled # "false")]]
  ELSE [err |-> "InvalidStep",
        step |-> [fn |-> "nofn", name |-> "undefined", args |-> NoArgs, enabled |-> TRUE]]

\* mutant: a list without items is taken as it is
NormalizeEmptyOk(fnList) ==
  IF fnList.k = "null" THEN [err |-> "NoList", steps |-> <<>>]
  ELSE IF \E j \in 1..Len(fnList.items) : NormalizeToStep(fnList.items[j]).err # "ok"
  THEN [err |-> "InvalidStep", steps |-> <<>>]
  ELSE [err |-> "ok",
        steps |-> [j \in 1..Len(fnList.items) |-> NormalizeToStep(fnList.items[j]).step]]

\* _normalizeToSteps: the steps, or the error thrown (the first one met)
NormalizeToSteps(fnList) ==
  IF fnList.k = "null" THEN [err |-> "NoList", steps |-> <<>>]
  ELSE LET src == fnList.items
           bad == {j \in 1..Len(src) : NormalizeToStep(src[j]).err # "ok"}
       IN IF bad # {} THEN [err |-> "InvalidStep", steps |-> <<>>]
          ELSE IF Len(src) = 0 THEN [err |-> "EmptyPipeline", steps |-> <<>>]
          ELSE [err |-> "ok", steps |-> [j \in 1..Len(src) |-> NormalizeToStep(src[j]).step]]

\* mutant: the registry defaults win over the options of the call
MergeDefaultsWin(d, opt) == [stopOnError |-> d.stopOnError]

\* Object.assign({}, this._defaults, options || {})
MergeOptions(d, opt) ==
  [stopOnError |-> IF opt = "absent" THEN d.stopOnError ELSE opt]

\* constructor: Object.assign({stopOnError: true, parallel: false}, options.defaults || {})
ConstructDefaults(opt) ==
  [stopOnError |-> IF opt = "absent" THEN "true" ELSE opt]

\* mutant: the ad-hoc entry takes the registry defaults as they are
AdhocOptionsDefaults(d) == [stopOnError |-> d.stopOnError]

\* applyList: Object.assign({}, this._defaults, {stopOnError: true})
AdhocOptions(d) == [stopOnError |-> "true"]

\* ---------------------------------------------------------------- runs
NoEntry == [steps |-> <<>>, options |-> [stopOnError |-> "true"]]
IdleRun ==
  [pc |-> "idle", via |-> "none", entered |-> FALSE,
   key |-> "", ref |-> "own", own |-> NoEntry,
   str |-> NoVal, input |-> <<>>, invokeArgs |-> NoArgs, current |-> <<>>, i |-> 0,
   pend |-> NoVal, ok |-> TRUE, out |-> [k |-> "none", v |-> NoVal], log |-> <<>>,
   snap |-> NoEntry, dirty |-> FALSE]

\* runTextChains: the names still to apply, the value the next then-callback
\* receives (prev), the closure variable current, and the promise returned;
\* trail records the pipelines applied, with their input and how they settled
IdleChain ==
  [pc |-> "idle", req |-> <<>>, names |-> <<>>, opt |-> "absent", stop |-> TRUE, str |-> NoVal,
   prev |-> <<>>, current |-> <<>>, ia |-> NoArgs,
   out |-> [k |-> "none", v |-> NoVal], trail |-> <<>>]

\* the apply/applyList activations that may be in flight together
RunIds == {1, 2}
Active(r) == runs[r].pc \notin {"idle", "done"}
\* the runs whose entry object is the one stored under name n
Bound(rs, n) == {r \in RunIds : rs[r].pc \notin {"idle", "done"} /\ rs[r].ref = "map" /\ rs[r].key = n}

\* mutant: the run works on a copy of the entry taken when apply was called
RunEntryCopied(r) == runs[r].snap

\* the entry a run works on: the object stored in the map (a live reference),
\* or an object no longer (or never) reachable from the map
RunEntry(r) ==
  IF runs[r].ref = "map" THEN MapGet(map, runs[r].key) ELSE runs[r].own

\* mutant: the runs go on with whatever the map holds under the name
DetachNone(rs, n) == rs

\* the old entry of n leaves the map: the runs holding it keep the object
Detach(rs, n) ==
  [r \in RunIds |->
     IF r \in Bound(rs, n)
     THEN [rs[r] EXCEPT !.ref = "own", !.own = MapGet(map, n)]
     ELSE rs[r]]

\* the entry of n is changed in place: the runs holding it see the change
Touch(rs, n) ==
  [r \in RunIds |-> IF r \in Bound(rs, n) THEN [rs[r] EXCEPT !.dirty = TRUE] ELSE rs[r]]

\* a facade call, the error it threw ("ok": none) and its arguments
Call(op, n, err, arg) == [op |-> op, name |-> n, err |-> err, arg |-> arg]

\* ------------------------------------------------------------ facade
\* mutant: a registration that fails takes the name out of the map
RejectedDrops(m, n) == MapDelete(m, n)

\* the map after _normalizeToSteps threw in register: this._map.set was not
\* reached, the map is what it was
Rejected(m, n) == m

\* register(name, fnList, options)
Register(n, fnList, opt) ==
  LET norm == NormalizeToSteps(fnList)
      had == MapHas(map, n)
      old == IF had THEN MapGet(map, n) ELSE NoEntry
      \* the arguments, and what the name held before the call
      arg == [fl |-> fnList, opt |-> opt, had |-> had,
              oldLen |-> Len(old.steps), oldSoe |-> old.options.stopOnError]
  IN
  /\ IF n \in NonStringNames \/ n \in BlankNames
     THEN /\ last' = Call("register", n, "InvalidName", arg)
          /\ UNCHANGED <<map, runs, lastReg>>
     ELSE IF norm.err # "ok"
     THEN /\ last' = Call("register", n, norm.err, arg)
          /\ map' = Rejected(map, n)
          /\ UNCHANGED <<runs, lastReg>>
     ELSE /\ map' = MapSet(map, n, [steps |-> norm.steps,
                                    options |-> MergeOptions(defaults, opt)])
          /\ runs' = Detach(runs, n)
          /\ lastReg' = [lastReg EXCEPT ![n] = "register"]
          /\ last' = Call("register", n, "ok", arg)
  /\ UNCHANGED <<hooks, defaults, chain, nmut>>

\* unregister(name)
Unregister(n) ==
  /\ map' = MapDelete(map, n)
  /\ runs' = Detach(runs, n)
  /\ lastReg' = [lastReg EXCEPT ![n] = "unregister"]
  /\ last' = Call("unregister", n, "ok", <<>>)
  /\ UNCHANGED <<hooks, defaults, chain, nmut>>

\* mutant: entries registered from the same value hold the same step objects
SharedByValue(m, n) ==
  {m[j].key : j \in {i \in 1..Len(m) : m[i].key # n /\ m[i].val.steps = MapGet(m, n).steps}}

\* the other names whose entry holds the step array or the step objects of
\* n: none, _normalizeToSteps fills a new array with new objects on every call
SharedWith(m, n) == {}

\* the step list of n after a change made in place, seen through every entry
\* that holds it
WriteSteps(m, n, steps) ==
  [j \in 1..Len(m) |->
     IF m[j].key = n \/ m[j].key \in SharedWith(m, n)
     THEN [key |-> m[j].key, val |-> [m[j].val EXCEPT !.steps = steps]]
     ELSE m[j]]

Max(a, b) == IF a > b THEN a ELSE b
Min(a, b) == IF a < b THEN a ELSE b
\* mutant: the step is put at the end whatever the index
SpliceAppend(steps, i, step) == Append(steps, step)

\* steps.splice(i, 0, step), i counted from 0
SpliceIn(steps, i, step) ==
  [j \in 1..(Len(steps) + 1) |->
     IF j <= i THEN steps[j] ELSE IF j = i + 1 THEN step ELSE steps[j - 1]]
\* mutant: the last step is removed whatever the index
SpliceOutLast(steps, i) == SubSeq(steps, 1, Len(steps) - 1)

\* steps.splice(i, 1), i counted from 0
SpliceOut(steps, i) ==
  [j \in 1..(Len(steps) - 1) |-> IF j <= i THEN steps[j] ELSE steps[j + 1]]

\* mutant: the flag is written to every step of the list
SetEnabledAll(steps, i, enabled) ==
  [j \in 1..Len(steps) |-> [steps[j] EXCEPT !.enabled = enabled]]

\* steps[i].enabled = !!enabled, i counted from 0
SetEnabled(steps, i, enabled) == [steps EXCEPT ![i + 1].enabled = enabled]

\* insert(name, index, filter)
Insert(n, index, item) ==
  LET norm == NormalizeToStep(item)
      arg == [index |-> index, item |-> item]
  IN
  /\ nmut < MaxMut
  /\ MapHas(map, n) => Len(MapGet(map, n).steps) < MaxSteps
  /\ nmut' = nmut + 1
  /\ IF ~MapHas(map, n)
     THEN /\ last' = Call("insert", n, "NotFound", arg)
          /\ UNCHANGED <<map, runs>>
     ELSE IF norm.err # "ok"
     THEN /\ last' = Call("insert", n, norm.err, arg)
          /\ UNCHANGED <<map, runs>>
     ELSE LET entry == MapGet(map, n)
              i == Max(0, Min(index, Len(entry.steps)))
          IN /\ map' = WriteSteps(map, n, SpliceIn(entry.steps, i, norm.step))
             /\ runs' = Touch(runs, n)
             /\ last' = Call("insert", n, "ok", arg)
  /\ UNCHANGED <<hooks, defaults, chain, lastReg>>

\* removeAt(name, index)
RemoveAt(n, index) ==
  LET arg == [index |-> index] IN
  /\ nmut < MaxMut
  /\ nmut' = nmut + 1
  /\ IF ~MapHas(map, n)
     THEN /\ last' = Call("removeAt", n, "NotFound", arg)
          /\ UNCHANGED <<map, runs>>
     ELSE LET entry == MapGet(map, n) IN
          IF index < 0 \/ index >= Len(entry.steps)
          THEN /\ last' = Call("removeAt", n, "IndexOutOfRange", arg)
               /\ UNCHANGED <<map, runs>>
          ELSE /\ map' = WriteSteps(map, n, SpliceOut(entry.steps, index))
               /\ runs' = Touch(runs, n)
               /\ last' = Call("removeAt", n, "ok", arg)
  /\ UNCHANGED <<hooks, defaults, chain, lastReg>>

\* enable(name, index, enabled)
Enable(n, index, enabled) ==
  LET arg == [index |-> index, enabled |-> enabled,
              oldLen |-> IF MapHas(map, n) THEN Len(MapGet(map, n).steps) ELSE 0,
              \* the flag the step had before the call
              was |-> IF MapHas(map, n) /\ index >= 0 /\ index < Len(MapGet(map, n).steps)
                      THEN MapGet(map, n).steps[index + 1].enabled ELSE TRUE]
  IN
  /\ nmut < MaxMut
  /\ nmut' = nmut + 1
  /\ IF ~MapHas(map, n)
     THEN /\ last' = Call("enable", n, "NotFound", arg)
          /\ UNCHANGED <<map, runs>>
     ELSE LET entry == MapGet(map, n) IN
          IF index < 0 \/ index >= Len(entry.steps)
          THEN /\ last' = Call("enable", n, "IndexOutOfRange", arg)
               /\ UNCHANGED <<map, runs>>
          ELSE /\ map' = WriteSteps(map, n, SetEnabled(entry.steps, index, enabled))
               /\ runs' = Touch(runs, n)
               /\ last' = Call("enable", n, "ok", arg)
  /\ UNCHANGED <<hooks, defaults, chain, lastReg>>

\* what the caller of get does to the array it was given
ListEdits == {"none", "push", "pop", "reverse", "flag"}
\* the caller's array after the edit; "flag" writes a field of its first element
EditList(steps, ed) ==
  CASE ed = "push" -> Append(steps, [fn |-> "a", name |-> "undefined", args |-> NoArgs, enabled |-> TRUE])
    [] ed = "pop" -> IF steps = <<>> THEN steps ELSE SubSeq(steps, 1, Len(steps) - 1)
    [] ed = "reverse" -> [j \in 1..Len(steps) |-> steps[Len(steps) + 1 - j]]
    [] ed = "flag" -> IF steps = <<>> THEN steps ELSE [steps EXCEPT ![1].enabled = FALSE]
    [] OTHER -> steps

\* mutant: get hands out the stored array itself
StoredAliased(steps, ed) == EditList(steps, ed)

\* entry.steps.slice(): the array is the caller's own, its elements are the
\* stored step objects; the stored steps after the caller's edit
StoredAfterEdit(steps, ed) ==
  IF ed = "flag" /\ steps # <<>> THEN [steps EXCEPT ![1].enabled = FALSE] ELSE steps

\* get(name), and what the caller then does with the result
Get(n, ed) ==
  /\ IF ~MapHas(map, n)
     THEN /\ last' = Call("get", n, "ok", [ret |-> [k |-> "null", steps |-> <<>>], ed |-> ed])
          /\ UNCHANGED <<map, runs>>
     ELSE LET entry == MapGet(map, n) IN
          /\ last' = Call("get", n, "ok", [ret |-> [k |-> "array", steps |-> entry.steps], ed |-> ed])
          /\ map' = MapSet(map, n, [entry EXCEPT !.steps = StoredAfterEdit(entry.steps, ed)])
          /\ runs' = IF map' = map THEN runs ELSE Touch(runs, n)
  /\ UNCHANGED <<hooks, defaults, chain, lastReg, nmut>>

\* what a caller does to the value it has registered: push onto the list,
\* write the enabled field of its first item, push onto that item's args array
InputEdits == {"push", "flag", "args"}
\* a step list to which such an edit is applied
EditInput(steps, ed) ==
  IF ed = "args"
  THEN IF steps # <<>> /\ steps[1].args.k = "array"
       THEN [steps EXCEPT ![1].args.v = Append(@, <<"s9">>)] ELSE steps
  ELSE EditList(steps, ed)

\* mutant: the entry holds the caller's list, items and args arrays
StoredFromInput(steps, ed) == EditInput(steps, ed)

\* the stored steps after the caller's edit: the stored array, the step
\* objects and their args arrays are the normalizer's own
StoredAfterInputEdit(steps, ed) == steps

\* the caller of the last register changes the value it passed
CallerEdit(n, ed) ==
  /\ last.op = "register" /\ last.err = "ok" /\ last.name = n
  /\ LET entry == MapGet(map, n) IN
     /\ map' = MapSet(map, n, [entry EXCEPT !.steps = StoredAfterInputEdit(entry.steps, ed)])
     /\ runs' = IF map' = map THEN runs ELSE Touch(runs, n)
  /\ last' = Call("edit", n, "ok", [ed |-> ed])
  /\ UNCHANGED <<hooks, defaults, chain, lastReg, nmut>>

\* mutant: the most recently added name is left out
KeysOmitLast(m) == [j \in 1..(Len(m) - 1) |-> m[j].key]

\* Array.from(this._map.keys())
KeysArray(m) == MapKeys(m)

\* names()
NamesCall ==
  /\ last' = Call("names", "", "ok", [ret |-> KeysArray(map)])
  /\ UNCHANGED <<hooks, defaults, chain, map, runs, lastReg, nmut>>

\* ------------------------------------------------------------ plugins
\* The registry calls a plugin makes, as functions of the map: the error the
\* call throws ("ok": none) and the map it leaves.
Ret(err, m) == [err |-> err, map |-> m]

RegisterIn(m, n, fnList, opt) ==
  LET norm == NormalizeToSteps(fnList) IN
  IF n \in NonStringNames \/ n \in BlankNames THEN Ret("InvalidName", m)
  ELSE IF norm.err # "ok" THEN Ret(norm.err, m)
  ELSE Ret("ok", MapSet(m, n, [steps |-> norm.steps, options |-> MergeOptions(defaults, opt)]))

UnregisterIn(m, n) == Ret("ok", MapDelete(m, n))

EnableIn(m, n, index, enabled) ==
  IF ~MapHas(m, n) THEN Ret("NotFound", m)
  ELSE LET entry == MapGet(m, n) IN
       IF index < 0 \/ index >= Len(entry.steps) THEN Ret("IndexOutOfRange", m)
       ELSE Ret("ok", MapSet(m, n, [entry EXCEPT !.steps = SetEnabled(entry.steps, index, enabled)]))

\* one call of a plugin body
PluginCall(m, c) ==
  CASE c.op = "register" -> RegisterIn(m, c.name, c.fl, c.opt)
    [] c.op = "unregister" -> UnregisterIn(m, c.name)
    [] c.op = "enable" -> EnableIn(m, c.name, c.index, c.enabled)

PReg(n, fl) == [op |-> "register", name |-> n, fl |-> fl, opt |-> "false", index |-> 0, enabled |-> TRUE]
PUnreg(n) == [op |-> "unregister", name |-> n, fl |-> ListNull, opt |-> "absent", index |-> 0, enabled |-> TRUE]
PEnable(n, j, e) == [op |-> "enable", name |-> n, fl |-> ListNull, opt |-> "absent", index |-> j, enabled |-> e]

\* a plugin: not a function, or a function whose body makes registry calls
\* in order and may throw an error of its own at the end
Plugin(k, calls, throws) == [k |-> k, calls |-> calls, throws |-> throws]
Plugins ==
  { Plugin("other", <<PReg("q", ListOne(BareFn("a")))>>, FALSE),
    Plugin("fn", <<PReg("q", ListArr(<<BareFn("a"), BareFn("n")>>))>>, FALSE),
    Plugin("fn", <<PReg("q", ListOne(BareFn("u"))), PEnable("q", 0, FALSE)>>, TRUE),
    Plugin("fn", <<PUnreg("p"), PEnable("p", 0, FALSE), PReg("q", ListOne(BareFn("a")))>>, FALSE),
    Plugin("fn", <<PEnable("q", 0, FALSE), PReg("q", ListArr(<<>>)), PUnreg("q")>>, FALSE) }

\* plugin(this): the body runs its calls from the i-th on; a call that
\* throws ends the body with that error
RECURSIVE RunPlugin(_, _, _)
RunPlugin(m, pl, i) ==
  IF i > Len(pl.calls) THEN Ret(IF pl.throws THEN "E_plugin" ELSE "ok", m)
  ELSE LET res == PluginCall(m, pl.calls[i]) IN
       IF res.err # "ok" THEN res ELSE RunPlugin(res.map, pl, i + 1)

\* mutant: a plugin that threw leaves the registry as it was before use
UseRolledBack(m, res) == IF res.err # "ok" THEN Ret(res.err, m) ELSE res

\* what use leaves behind of the plugin's run res, started on map m
UseResult(m, res) == res

\* use(plugin), called while no apply/applyList activation holds an entry
Use(pl) ==
  /\ \A n \in Names : Bound(runs, n) = {}
  /\ IF pl.k # "fn"
     THEN /\ last' = Call("use", "", "ok", [plugin |-> pl])
          /\ UNCHANGED <<hooks, defaults, chain, map, runs, lastReg, nmut>>
     ELSE LET res == UseResult(map, RunPlugin(map, pl, 1)) IN
          /\ map' = res.map
          /\ last' = Call("use", "", res.err, [plugin |-> pl])
          /\ lastReg' = [n \in Names |->
               IF MapHas(res.map, n) THEN "register"
               ELSE IF MapHas(map, n) THEN "unregister" ELSE lastReg[n]]
          /\ UNCHANGED <<hooks, defaults, chain, runs, nmut>>

\* ------------------------------------------------------------ step functions
RECURSIVE Flatten(_)
Flatten(ss) == IF ss = <<>> THEN <<>> ELSE Head(ss) \o Flatten(Tail(ss))

\* what calling step function f with the argument list args does:
\* return a value, throw, or return a promise that resolves or rejects
FnCall(f, args) ==
  CASE f = "a" -> [k |-> "ret", ok |-> TRUE,
                   v |-> StrVal(Head(args) \o <<"A">> \o Flatten(Tail(args)))]
    [] f = "b" -> [k |-> "promise", ok |-> TRUE,
                   v |-> StrVal(Head(args) \o <<"B">> \o Flatten(Tail(args)))]
    [] f = "t" -> [k |-> "throw", ok |-> FALSE, v |-> ErrVal("E_t")]
    [] f = "r" -> [k |-> "promise", ok |-> FALSE, v |-> ErrVal("E_r")]
    [] f = "n" -> [k |-> "ret", ok |-> TRUE, v |-> NullVal]
    [] f = "m" -> [k |-> "promise", ok |-> TRUE, v |-> NullVal]
    [] f = "u" -> [k |-> "ret", ok |-> TRUE, v |-> UndefVal]
    [] f = "v" -> [k |-> "promise", ok |-> TRUE, v |-> UndefVal]

\* str == null ? "" : String(str)
CoerceInput(v) == IF v.k \in {"null", "undef"} THEN <<>> ELSE v.s
\* String(result ?? "")
ToStringSync(v) == IF v.k \in {"null", "undef"} THEN <<>> ELSE v.s
\* String(await result)
ToStringAwaited(v) ==
  IF v.k = "null" THEN <<"null">> ELSE IF v.k = "undef" THEN <<"undefined">> ELSE v.s

\* ------------------------------------------------------------ executor
Ev(e, nm, idx, args, v, stage) ==
  [e |-> e, name |-> nm, idx |-> idx, args |-> args, v |-> v, stage |-> stage]

\* mutant: the policy test is inverted
StopOnErrorInverted(options) == options.stopOnError = "false"

\* options.stopOnError !== false
StopOnError(options) == options.stopOnError # "false"

\* mutant: the enabled flag is not looked at
NeverSkipped(step) == FALSE

\* !step || step.enabled === false
Skipped(step) == step.enabled = FALSE

\* Array.isArray(x) && x.length > 0 ? x : []
Spread(a) == IF a.k = "array" THEN a.v ELSE <<>>
\* mutant: the call-time arguments are spread before the step's own
BuildArgsSwapped(current, step, invokeArgs) ==
  <<current>> \o Spread(invokeArgs) \o Spread(step.args)

\* [current, ...step.args, ...invokeArgs]
BuildArgs(current, step, invokeArgs) ==
  <<current>> \o Spread(step.args) \o Spread(invokeArgs)

\* mutant: a failing lifecycle hook is not reported to onError
OnErrorStepsOnly(log, nm, err, stage, idx) ==
  IF hooks.onError = "none" \/ stage = "hook" THEN log
  ELSE Append(log, Ev("onError", nm, idx, <<>>, err, stage))

\* _handleHookError: the onError hook is called when it is a function
OnErrorLog(log, nm, err, stage, idx) ==
  IF hooks.onError = "none" THEN log
  ELSE Append(log, Ev("onError", nm, idx, <<>>, err, stage))

\* mutant: the failure of the onError hook leaves _handleHookError
EscapesUncaught(hk) == IF hk.onError = "fail" THEN ErrVal("E_onError") ELSE NoVal

\* what _handleHookError throws to its caller: nothing, the catch block logs
\* the failure of the onError hook and returns
Escapes(hk) == NoVal

\* mutant: current is one slot shared by the activations in flight
CurrentShared(r) ==
  LET act == {q \in RunIds : Active(q)} IN
  IF act = {} THEN runs[r].current
  ELSE runs[CHOOSE q \in act : \A h \in act : q <= h].current

\* let current = input: a local variable of the activation
Current(r) == runs[r].current

\* where a run enters the step loop
EnterLoop(run) == [run EXCEPT !.pc = "loop", !.i = 0]

\* mutant: the loop is entered without beforeApply being called
StartUnannounced(run) == EnterLoop(run)

\* the start of _runPipeline, up to its first suspension
StartPipeline(run) ==
  IF hooks.beforeApply # "none"
  THEN [run EXCEPT !.pc = "before",
                   !.log = Append(@, Ev("before", run.key, -1, <<run.current>>, NoVal, ""))]
  ELSE EnterLoop(run)

\* the promise of the call settles: resolved with a string, or rejected with an error
Settle(run, kind, v) ==
  [run EXCEPT !.pc = "done", !.out = [k |-> kind, v |-> v], !.pend = NoVal]

\* mutant: the error leaves the call as an exception, no promise is returned
ThrowInSync(run, err) == [run |-> IdleRun, thrown |-> err]

\* a throw in the body of an async method, before its first await: the call
\* returns a promise rejected with the error and throws nothing
ThrowInAsync(run, err) == [run |-> Settle(run, "fail", ErrVal(err)), thrown |-> "ok"]

\* apply(name, str, invokeArgs)
ApplyCall(r, n, str, ia) ==
  LET called == [IdleRun EXCEPT !.via = "apply", !.key = n, !.str = str, !.invokeArgs = ia]
      thrown == ThrowInAsync(called, "NotFound")
  IN
  /\ runs[r].pc = "idle"
  /\ IF ~MapHas(map, n)
     THEN /\ runs' = [runs EXCEPT ![r] = thrown.run]
          /\ last' = Call("apply", n, thrown.thrown, <<>>)
     ELSE /\ last' = Call("apply", n, "ok", <<>>)
          /\ runs' = [runs EXCEPT ![r] =
            StartPipeline([IdleRun EXCEPT !.via = "apply", !.entered = TRUE,
                                          !.key = n, !.ref = "map", !.str = str,
                                          !.input = CoerceInput(str), !.invokeArgs = ia,
                                          !.current = CoerceInput(str),
                                          !.snap = MapGet(map, n)])]
  /\ UNCHANGED <<hooks, defaults, map, lastReg, nmut>>

\* apply called by a caller other than runTextChains
Apply(r, n, str, ia) == ApplyCall(r, n, str, ia) /\ UNCHANGED chain

\* applyList(fnList, str, invokeArgs)
ApplyList(r, fnList, str, ia) ==
  LET norm == NormalizeToSteps(fnList)
      entry == [steps |-> norm.steps, options |-> AdhocOptions(defaults)]
      called == [IdleRun EXCEPT !.via = "applyList", !.key = AdhocName, !.str = str,
                                !.invokeArgs = ia]
      thrown == ThrowInAsync(called, norm.err)
  IN
  /\ runs[r].pc = "idle"
  /\ IF norm.err # "ok"
     THEN /\ runs' = [runs EXCEPT ![r] = thrown.run]
          /\ last' = Call("applyList", AdhocName, thrown.thrown, [fl |-> fnList])
     ELSE /\ last' = Call("applyList", AdhocName, "ok", [fl |-> fnList])
          /\ runs' = [runs EXCEPT ![r] =
            StartPipeline([IdleRun EXCEPT !.via = "applyList", !.entered = TRUE,
                                          !.key = AdhocName, !.ref = "own", !.own = entry,
                                          !.str = str,
                                          !.input = CoerceInput(str), !.invokeArgs = ia,
                                          !.current = CoerceInput(str),
                                          !.snap = entry])]
  /\ UNCHANGED <<hooks, defaults, chain, map, lastReg, nmut>>

\* a hook failed: _handleHookError is called and awaited
HookFailed(run, pc, err, stage, idx) ==
  [run EXCEPT !.pc = pc, !.pend = err,
              !.log = OnErrorLog(run.log, run.key, err, stage, idx)]

\* await hooks.beforeApply(name, current) settles
BeforeSettled(r) ==
  LET run == runs[r] IN
  /\ run.pc = "before"
  /\ runs' = [runs EXCEPT ![r] =
       IF hooks.beforeApply = "ok" THEN EnterLoop(run)
       ELSE HookFailed(run, "errBefore", ErrVal("E_before"), "hook", -1)]
  /\ UNCHANGED <<hooks, defaults, chain, map, last, lastReg, nmut>>

\* await _handleHookError(...) settles after a beforeApply failure
BeforeErrorHandled(r) ==
  LET run == runs[r] IN
  /\ run.pc = "errBefore"
  /\ runs' = [runs EXCEPT ![r] =
       IF Escapes(hooks) # NoVal THEN Settle(run, "fail", Escapes(hooks))
       ELSE IF StopOnError(RunEntry(r).options) THEN Settle(run, "fail", run.pend)
       ELSE EnterLoop([run EXCEPT !.pend = NoVal])]
  /\ UNCHANGED <<hooks, defaults, chain, map, last, lastReg, nmut>>

\* mutant: the loop index is not advanced after a step
AdvanceNowhere(run, cur) == [run EXCEPT !.pc = "loop", !.current = cur, !.pend = NoVal]

\* mutant: the produced string is dropped, current stays what it was
AdvanceStale(run, cur) ==
  [run EXCEPT !.pc = "loop", !.i = @ + 1, !.pend = NoVal]

\* a step produced the string cur: it becomes current and the loop goes on
Advance(run, cur) ==
  [run EXCEPT !.pc = "loop", !.current = cur, !.i = @ + 1, !.pend = NoVal]

\* mutant: the promise is not awaited, the loop goes on to the next step
NoAwait(run, res) == [run EXCEPT !.i = @ + 1]

\* what the loop does after a step function returned a promise
AwaitStep(run, res) == [run EXCEPT !.pc = "step", !.pend = res.v, !.ok = res.ok]

\* the loop is left: afterApply is called, or the run returns current
LeaveLoop(run) ==
  IF hooks.afterApply # "none"
  THEN [run EXCEPT !.pc = "after",
                   !.log = Append(@, Ev("after", run.key, -1, <<run.current>>, NoVal, ""))]
  ELSE Settle(run, "ok", StrVal(run.current))

\* one iteration of the for loop, up to its suspension or its end
LoopStep(r) ==
  LET run == runs[r]
      steps == RunEntry(r).steps
  IN
  /\ run.pc = "loop"
  /\ runs' = [runs EXCEPT ![r] =
       IF run.i >= Len(steps) THEN LeaveLoop(run)
       ELSE LET step == steps[run.i + 1] IN
            IF Skipped(step) THEN [run EXCEPT !.i = @ + 1]
            ELSE LET args == BuildArgs(Current(r), step, run.invokeArgs)
                     res == FnCall(step.fn, args)
                     called == [run EXCEPT !.log = Append(@, Ev("call", step.fn, run.i, args, NoVal, ""))]
                 IN CASE res.k = "ret" ->
                           Advance([called EXCEPT !.log = Append(@, Ev("settle", step.fn, run.i, <<>>,
                                                               StrVal(ToStringSync(res.v)), ""))],
                                   ToStringSync(res.v))
                      [] res.k = "throw" ->
                           HookFailed([called EXCEPT !.log = Append(@, Ev("settle", step.fn, run.i, <<>>, res.v, ""))],
                                      "errStep", res.v, "step", run.i)
                      [] res.k = "promise" -> AwaitStep(called, res)]
  /\ UNCHANGED <<hooks, defaults, chain, map, last, lastReg, nmut>>

\* await result settles
StepSettled(r) ==
  LET run == runs[r]
      fn == run.log[Len(run.log)].name
  IN
  /\ run.pc = "step"
  /\ runs' = [runs EXCEPT ![r] =
       IF run.ok
       THEN Advance([run EXCEPT !.log = Append(@, Ev("settle", fn, run.i, <<>>,
                                             StrVal(ToStringAwaited(run.pend)), ""))],
                    ToStringAwaited(run.pend))
       ELSE HookFailed([run EXCEPT !.log = Append(@, Ev("settle", fn, run.i, <<>>, run.pend, ""))],
                       "errStep", run.pend, "step", run.i)]
  /\ UNCHANGED <<hooks, defaults, chain, map, last, lastReg, nmut>>

\* mutant: a failed step makes the run fall back to the original input
KeepInput(run) == run.input

\* what a failed step leaves in current when the run goes on
KeepCurrent(run) == run.current

\* await _handleHookError(...) settles after a step failure
StepErrorHandled(r) ==
  LET run == runs[r] IN
  /\ run.pc = "errStep"
  /\ runs' = [runs EXCEPT ![r] =
       IF Escapes(hooks) # NoVal THEN Settle(run, "fail", Escapes(hooks))
       ELSE IF StopOnError(RunEntry(r).options) THEN Settle(run, "fail", run.pend)
       ELSE Advance(run, KeepCurrent(run))]
  /\ UNCHANGED <<hooks, defaults, chain, map, last, lastReg, nmut>>

\* await hooks.afterApply(name, current) settles
AfterSettled(r) ==
  LET run == runs[r] IN
  /\ run.pc = "after"
  /\ runs' = [runs EXCEPT ![r] =
       IF hooks.afterApply = "ok" THEN Settle(run, "ok", StrVal(run.current))
       ELSE HookFailed(run, "errAfter", ErrVal("E_after"), "hook", -1)]
  /\ UNCHANGED <<hooks, defaults, chain, map, last, lastReg, nmut>>

\* await _handleHookError(...) settles after an afterApply failure
AfterErrorHandled(r) ==
  LET run == runs[r] IN
  /\ run.pc = "errAfter"
  /\ runs' = [runs EXCEPT ![r] =
       IF Escapes(hooks) # NoVal THEN Settle(run, "fail", Escapes(hooks))
       ELSE IF StopOnError(RunEntry(r).options) THEN Settle(run, "fail", run.pend)
       ELSE Settle(run, "ok", StrVal(run.current))]
  /\ UNCHANGED <<hooks, defaults, chain, map, last, lastReg, nmut>>

\* the caller has taken the settled promise
Collect(r) ==
  /\ runs[r].pc = "done"
  /\ runs' = [runs EXCEPT ![r] = IdleRun]
  /\ UNCHANGED <<hooks, defaults, chain, map, last, lastReg, nmut>>

RunStep(r) ==
  \/ BeforeSettled(r)
  \/ BeforeErrorHandled(r)
  \/ LoopStep(r)
  \/ StepSettled(r)
  \/ StepErrorHandled(r)
  \/ AfterSettled(r)
  \/ AfterErrorHandled(r)

\* ------------------------------------------------------------ runTextChains
\* the names argument: an array of names, or a value that is not an array
NameArr(v) == [k |-> "array", v |-> v]
NotAnArray == [k |-> "other", v |-> <<>>]
\* Array.isArray(names) ? names.slice() : []
ListNames(names) == IF names.k = "array" THEN names.v ELSE <<>>
\* opts.stopOnError !== false
ChainStops(opt) == opt # "false"

\* runTextChains(names, str, invokeArgs, options), up to its return
RunTextChains(names, str, ia, opt) ==
  LET listNames == ListNames(names)
      called == [IdleChain EXCEPT !.req = listNames, !.names = listNames, !.str = str,
                                  !.opt = opt, !.stop = ChainStops(opt), !.ia = ia,
                                  !.prev = CoerceInput(str), !.current = CoerceInput(str)]
  IN
  /\ chain.pc = "idle"
  /\ chain' = IF Len(listNames) = 0
               THEN [called EXCEPT !.pc = "done", !.out = [k |-> "ok", v |-> StrVal(CoerceInput(str))]]
               ELSE [called EXCEPT !.pc = "next"]
  /\ UNCHANGED <<hooks, defaults, map, runs, last, lastReg, nmut>>

\* the then-callback of one name: current = prev, and reg.apply is called
ChainApply(r) ==
  /\ chain.pc = "next"
  /\ ApplyCall(r, Head(chain.names), StrVal(chain.prev), chain.ia)
  /\ chain' = [chain EXCEPT !.pc = "wait", !.current = chain.prev,
                             !.trail = Append(@, [name |-> Head(chain.names),
                                                  input |-> runs'[r].str,
                                                  out |-> [k |-> "none", v |-> NoVal]])]

\* mutant: the value the failed pipeline had reached is passed on
RecoverPartial(cur, run) == run.current

\* the catch callback's return when the chain goes on: current
Recover(cur, run) == cur

\* the promise of reg.apply settles: the then or the catch callback runs
ChainSettled(r) ==
  LET run == runs[r]
      rest == Tail(chain.names)
      seen == [chain EXCEPT !.names = rest,
                            !.trail = [@ EXCEPT ![Len(@)].out = run.out]]
      pass(v) == IF rest = <<>>
                 THEN [seen EXCEPT !.pc = "done", !.prev = v, !.out = [k |-> "ok", v |-> StrVal(v)]]
                 ELSE [seen EXCEPT !.pc = "next", !.prev = v]
  IN
  /\ chain.pc = "wait"
  /\ run.pc = "done"
  /\ chain' = IF run.out.k = "ok" THEN pass(CoerceInput(run.out.v))
               ELSE IF chain.stop THEN [seen EXCEPT !.pc = "done", !.out = run.out]
               ELSE pass(Recover(chain.current, run))
  /\ runs' = [runs EXCEPT ![r] = IdleRun]
  /\ UNCHANGED <<hooks, defaults, map, last, lastReg, nmut>>

\* the caller has taken the settled promise of runTextChains
ChainCollect ==
  /\ chain.pc = "done"
  /\ chain' = IdleChain
  /\ UNCHANGED <<hooks, defaults, map, runs, last, lastReg, nmut>>

\* ------------------------------------------------------------ _runPipeline as a function
\* The outcome of one undisturbed _runPipeline activation on entry, as a
\* function of its arguments: the settled promise and the step calls made.
Result(kind, v, calls) == [k |-> kind, v |-> v, calls |-> calls]

RECURSIVE RunLoop(_, _, _, _, _, _)
RunLoop(steps, options, i, current, ia, calls) ==
  IF i >= Len(steps) THEN Result("ok", StrVal(current), calls)
  ELSE LET step == steps[i + 1] IN
       IF Skipped(step) THEN RunLoop(steps, options, i + 1, current, ia, calls)
       ELSE LET args == BuildArgs(current, step, ia)
                res == FnCall(step.fn, args)
                made == Append(calls, [idx |-> i, args |-> args])
            IN IF res.ok
               THEN RunLoop(steps, options, i + 1,
                            IF res.k = "promise" THEN ToStringAwaited(res.v)
                            ELSE ToStringSync(res.v),
                            ia, made)
               ELSE IF StopOnError(options) THEN Result("fail", res.v, made)
               ELSE RunLoop(steps, options, i + 1, current, ia, made)

Outcome(entry, input, ia) ==
  IF hooks.beforeApply = "fail" /\ StopOnError(entry.options)
  THEN Result("fail", ErrVal("E_before"), <<>>)
  ELSE LET res == RunLoop(entry.steps, entry.options, 0, input, ia, <<>>) IN
       IF res.k = "ok" /\ hooks.afterApply = "fail" /\ StopOnError(entry.options)
       THEN Result("fail", ErrVal("E_after"), res.calls)
       ELSE res

\* ------------------------------------------------------------ specification
Init ==
  /\ hooks \in HookConfigs
  /\ \E d \in {"absent", "false"} : defaults = ConstructDefaults(d)
  /\ map = <<>>
  /\ runs = [r \in RunIds |-> IdleRun]
  /\ last = Call("new", "", "ok", <<>>)
  /\ lastReg = [n \in Names |-> "none"]
  /\ nmut = 0
  /\ chain = IdleChain

Indices == -1..MaxSteps

\* no apply/applyList call is in flight or waiting to be taken
Quiet == \A r \in RunIds : runs[r].pc = "idle"

\* One pipeline name and one activation at a time, the caller awaiting each
\* call before the next.  applyList reads this._defaults and this._hooks only,
\* never the map, so it is offered on the empty registry alone.
Next ==
  \/ Quiet /\ \E fl \in FnLists, o \in OptInputs : Register("p", fl, o)
  \/ Quiet /\ \E j \in Indices, e \in BOOLEAN : Enable("p", j, e)
  \/ \E s \in InputVals, ia \in InvokeArgVals : Apply(1, "p", s, ia)
  \/ map = <<>> /\ \E fl \in FnLists, s \in InputVals, ia \in InvokeArgVals :
        ApplyList(1, fl, s, ia)
  \/ RunStep(1)
  \/ Collect(1)

Spec == Init /\ [][Next]_vars

\* The store: two names, every facade call with valid and invalid arguments,
\* the caller awaiting each apply before the next call.
InitReg ==
  /\ \/ /\ hooks = Hooks("ok", "ok", "ok")
        /\ \E d \in {"absent", "false"} : defaults = ConstructDefaults(d)
     \/ /\ hooks = Hooks("fail", "fail", "ok")
        /\ defaults = ConstructDefaults("false")
  /\ map = <<>>
  /\ runs = [r \in RunIds |-> IdleRun]
  /\ last = Call("new", "", "ok", <<>>)
  /\ lastReg = [n \in Names |-> "none"]
  /\ nmut = 0
  /\ chain = IdleChain

RegLists ==
  { ListNull,
    ListArr(<<>>),
    ListOne(BareFn("a")),
    ListArr(<<ObjA1, BareFn("t"), BareFn("b")>>),
    ListArr(<<BareFn("a"), ObjNoFn>>) }

NextReg ==
  \/ Quiet /\ \E fl \in RegLists, o \in {"absent", "true", "false"} : Register("p", fl, o)
  \/ Quiet /\ \E n \in NameInputs \ {"p"} : Register(n, ListOne(BareFn("a")), "absent")
  \/ Quiet /\ \E n \in Names : Unregister(n)
  \/ Quiet /\ \E n \in Names, it \in {BareFn("t"), ObjNoFn} : Insert(n, 1, it)
  \/ Quiet /\ \E n \in Names, j \in {0, MaxSteps} : RemoveAt(n, j)
  \/ Quiet /\ \E n \in Names, j \in {0, MaxSteps} : Enable(n, j, FALSE)
  \/ \E n \in Names : Apply(1, n, StrVal(<<"x">>), NoArgs)
  \/ RunStep(1)
  \/ Collect(1)

SpecReg == InitReg /\ [][NextReg]_vars

\* Two activations in flight on one name.  The event loop runs every queued
\* continuation and the promises of the model's steps and hooks settle, so a
\* suspended activation is resumed: weak fairness of each activation's steps.
InitConc ==
  /\ hooks \in {Hooks("ok", "ok", "ok"), Hooks("fail", "fail", "ok")}
  /\ defaults = ConstructDefaults("absent")
  /\ map = <<>>
  /\ runs = [r \in RunIds |-> IdleRun]
  /\ last = Call("new", "", "ok", <<>>)
  /\ lastReg = [n \in Names |-> "none"]
  /\ nmut = 0
  /\ chain = IdleChain

ConcLists ==
  { ListArr(<<ObjA1, BareFn("t"), BareFn("b")>>),
    ListArr(<<BareFn("n"), BareFn("m"), BareFn("a")>>) }

NextConc ==
  \/ Quiet /\ \E fl \in ConcLists, o \in {"absent", "false"} : Register("p", fl, o)
  \/ Enable("p", 2, FALSE)
  \/ Apply(1, "p", StrVal(<<"x">>), NoArgs)
  \/ Apply(2, "p", NullVal, ArrArgs(<< <<"i1">> >>))
  \/ \E r \in RunIds : RunStep(r)
  \/ \E r \in RunIds : Collect(r)

SpecConc ==
  InitConc /\ [][NextConc]_vars /\ \A r \in RunIds : WF_vars(RunStep(r))

\* The editing surface: insert, removeAt and enable with every index around
\* the list of one name, a second name standing by, the caller awaiting each
\* apply.
InitEdit ==
  /\ hooks \in {Hooks("none", "none", "none"), Hooks("ok", "ok", "ok"), Hooks("fail", "fail", "ok")}
  /\ defaults = ConstructDefaults("absent")
  /\ map = <<>>
  /\ runs = [r \in RunIds |-> IdleRun]
  /\ last = Call("new", "", "ok", <<>>)
  /\ lastReg = [n \in Names |-> "none"]
  /\ nmut = 0
  /\ chain = IdleChain

EditLists ==
  { ListArr(<<>>),
    ListOne(BareFn("u")),
    ListArr(<<ObjA1, ObjBoff>>) }

NextEdit ==
  \/ Quiet /\ \E fl \in EditLists : Register("p", fl, "absent")
  \/ Quiet /\ Register("q", ListOne(BareFn("a")), "false")
  \/ Quiet /\ \E j \in Indices, it \in {BareFn("n"), ObjNoFn} : Insert("p", j, it)
  \/ Quiet /\ \E j \in Indices : RemoveAt("p", j)
  \/ Quiet /\ \E j \in Indices, e \in BOOLEAN : Enable("p", j, e)
  \/ \E n \in Names : Apply(1, n, StrVal(<<"x">>), NoArgs)
  \/ BeforeSettled(1)
  \/ BeforeErrorHandled(1)
  \/ LoopStep(1)
  \/ StepSettled(1)
  \/ AfterSettled(1)
  \/ AfterErrorHandled(1)
  \/ Collect(1)

SpecEdit == InitEdit /\ [][NextEdit]_vars

\* The reading surface: get, names and use between register, unregister and
\* the in-place changes, on a registry without hooks.
InitView ==
  /\ hooks = Hooks("none", "none", "none")
  /\ defaults = ConstructDefaults("absent")
  /\ map = <<>>
  /\ runs = [r \in RunIds |-> IdleRun]
  /\ last = Call("new", "", "ok", <<>>)
  /\ lastReg = [n \in Names |-> "none"]
  /\ nmut = 0
  /\ chain = IdleChain

NextView ==
  \/ Quiet /\ \E fl \in EditLists : Register("p", fl, "absent")
  \/ Quiet /\ \E n \in Names : Unregister(n)
  \/ Quiet /\ \E n \in Names : Insert(n, 1, BareFn("n"))
  \/ Quiet /\ \E n \in Names : RemoveAt(n, 0)
  \/ Quiet /\ \E n \in Names : Enable(n, 0, FALSE)
  \/ Quiet /\ \E n \in Names, ed \in ListEdits : Get(n, ed)
  \/ Quiet /\ NamesCall
  \/ Quiet /\ \E pl \in Plugins : Use(pl)
  \/ \E n \in Names : Apply(1, n, StrVal(<<"x">>), NoArgs)
  \/ LoopStep(1)
  \/ Collect(1)

SpecView == InitView /\ [][NextView]_vars

\* runTextChains over the names "p" and "q", registered, replaced or removed
\* between the pipelines of a chain; the caller starts one chain at a time.
InitChain ==
  /\ hooks = Hooks("none", "none", "none")
  /\ defaults = ConstructDefaults("absent")
  /\ map = <<>>
  /\ runs = [r \in RunIds |-> IdleRun]
  /\ last = Call("new", "", "ok", <<>>)
  /\ lastReg = [n \in Names |-> "none"]
  /\ nmut = 0
  /\ chain = IdleChain

ChainLists == { ListArr(<<BareFn("a"), BareFn("t"), BareFn("b")>>), ListOne(BareFn("r")) }
ChainNames ==
  { NotAnArray, NameArr(<<>>), NameArr(<<"p", "q">>), NameArr(<<"q", "p", "q">>) }

NextChain ==
  \/ Quiet /\ \E fl \in ChainLists, o \in {"absent", "false"} : Register("p", fl, o)
  \/ Quiet /\ Register("q", ListOne(BareFn("a")), "absent")
  \/ Quiet /\ Unregister("q")
  \/ \E ns \in ChainNames, s \in InputVals, o \in OptInputs : RunTextChains(ns, s, NoArgs, o)
  \/ ChainApply(1)
  \/ LoopStep(1)
  \/ StepSettled(1)
  \/ StepErrorHandled(1)
  \/ ChainSettled(1)
  \/ ChainCollect

SpecChain == InitChain /\ [][NextChain]_vars

\* Two names registered from the same values and given the same inserts,
\* each then edited on its own, and callers that change what they registered.
InitShare ==
  /\ hooks = Hooks("none", "none", "none")
  /\ defaults = ConstructDefaults("absent")
  /\ map = <<>>
  /\ runs = [r \in RunIds |-> IdleRun]
  /\ last = Call("new", "", "ok", <<>>)
  /\ lastReg = [n \in Names |-> "none"]
  /\ nmut = 0
  /\ chain = IdleChain

ShareLists == { ListArr(<<ObjA1, ObjBoff>>), ListOne(ObjA1), ListOne(BareFn("a")) }

NextShare ==
  \/ Quiet /\ \E n \in Names, fl \in ShareLists : Register(n, fl, "absent")
  \/ Quiet /\ \E n \in Names, j \in {0, 1} : Insert(n, j, ObjBoff)
  \/ Quiet /\ \E n \in Names : RemoveAt(n, 0)
  \/ Quiet /\ \E n \in Names, j \in {0, 1}, e \in BOOLEAN : Enable(n, j, e)
  \/ Quiet /\ \E n \in Names, ed \in InputEdits : CallerEdit(n, ed)
  \/ \E n \in Names : Apply(1, n, StrVal(<<"x">>), NoArgs)
  \/ LoopStep(1)
  \/ StepSettled(1)
  \/ Collect(1)

SpecShare == InitShare /\ [][NextShare]_vars

\* One activation on "p" while its step list is changed under it: insert,
\* removeAt and enable are offered at every suspension point of the run.  A
\* call made by a step function or a hook in its own body is such a call: it
\* comes after the step or hook was called and before the run resumes.  The
\* name "q" is never registered, and applyList is called with lists that
\* _normalizeToSteps refuses as well as with one it takes.
InitLive ==
  /\ hooks = Hooks("ok", "ok", "ok")
  /\ defaults = ConstructDefaults("absent")
  /\ map = <<>>
  /\ runs = [r \in RunIds |-> IdleRun]
  /\ last = Call("new", "", "ok", <<>>)
  /\ lastReg = [n \in Names |-> "none"]
  /\ nmut = 0
  /\ chain = IdleChain

\* what applyList is called with: no list, no step, an item without fn, one step
AdhocLists ==
  { ListNull, ListArr(<<>>), ListArr(<<BareFn("a"), ObjNoFn>>), ListOne(BareFn("a")) }

LiveLists == { ListArr(<<BareFn("b"), BareFn("a")>>), ListArr(<<BareFn("r"), BareFn("b")>>) }

\* the steps of _runPipeline that a registry without failing hooks takes
LiveStep(r) ==
  \/ BeforeSettled(r)
  \/ LoopStep(r)
  \/ StepSettled(r)
  \/ StepErrorHandled(r)
  \/ AfterSettled(r)

NextLive ==
  \/ Quiet /\ \E fl \in LiveLists, o \in {"absent", "false"} : Register("p", fl, o)
  \/ \E j \in {0, MaxSteps} : Insert("p", j, BareFn("a"))
  \/ RemoveAt("p", 0)
  \/ \E j \in {0, 1} : Enable("p", j, FALSE)
  \/ \E n \in Names : Apply(1, n, StrVal(<<"x">>), NoArgs)
  \/ \E fl \in AdhocLists : ApplyList(1, fl, NullVal, NoArgs)
  \/ LiveStep(1)
  \/ Collect(1)

SpecLive == InitLive /\ [][NextLive]_vars /\ WF_vars(LiveStep(1))

\* One activation on "p" while steps are inserted into "p": at the front or at
\* the end, by anyone, a step function or a hook of the run included, a
\* bounded number of times.
InitGrow ==
  /\ hooks = Hooks("ok", "ok", "ok")
  /\ \E d \in {"absent", "false"} : defaults = ConstructDefaults(d)
  /\ map = <<>>
  /\ runs = [r \in RunIds |-> IdleRun]
  /\ last = Call("new", "", "ok", <<>>)
  /\ lastReg = [n \in Names |-> "none"]
  /\ nmut = 0
  /\ chain = IdleChain

GrowLists == { ListOne(BareFn("b")), ListArr(<<BareFn("r"), BareFn("b")>>) }

NextGrow ==
  \/ Quiet /\ \E fl \in GrowLists : Register("p", fl, "absent")
  \/ \E j \in {0, MaxSteps} : Insert("p", j, BareFn("a"))
  \/ \E s \in InputVals : Apply(1, "p", s, NoArgs)
  \/ ApplyList(1, ListArr(<<BareFn("b"), BareFn("a")>>), NullVal, NoArgs)
  \/ LiveStep(1)
  \/ Collect(1)

SpecGrow == InitGrow /\ [][NextGrow]_vars /\ WF_vars(LiveStep(1))

\* One activation on "p" while the entry is replaced or removed under it, on
\* a registry whose onError hook fails whenever it is called.
InitSwap ==
  /\ hooks \in {Hooks("ok", "fail", "fail"), Hooks("fail", "fail", "fail")}
  /\ defaults = ConstructDefaults("absent")
  /\ map = <<>>
  /\ runs = [r \in RunIds |-> IdleRun]
  /\ last = Call("new", "", "ok", <<>>)
  /\ lastReg = [n \in Names |-> "none"]
  /\ nmut = 0
  /\ chain = IdleChain

SwapLists == { ListArr(<<BareFn("b"), BareFn("r"), BareFn("a")>>), ListOne(BareFn("m")) }

NextSwap ==
  \/ \E fl \in SwapLists, o \in {"absent", "false"} : Register("p", fl, o)
  \/ Unregister("p")
  \/ \E s \in InputVals : Apply(1, "p", s, NoArgs)
  \/ RunStep(1)
  \/ Collect(1)

SpecSwap == InitSwap /\ [][NextSwap]_vars

\* ------------------------------------------------------------ properties
IsCall(e) == e.e = "call"
IsSettle(e) == e.e = "settle"
CallsOf(run) == SelectSeq(run.log, IsCall)
SettlesOf(run) == SelectSeq(run.log, IsSettle)
Done(run) == run.pc = "done"
\* a run that reached _runPipeline on an entry nobody changed meanwhile
Undisturbed(run) == run.entered /\ ~run.dirty
\* the string a raw input stands for
InputString(v) == IF v.k = "str" THEN v.s ELSE <<>>
\* the extra arguments an args value contributes to a call
ExtraArgs(a) == IF a.k = "array" THEN a.v ELSE <<>>
\* step functions that throw or reject
FailingFns == {"t", "r"}
\* the string the step leaves in current when it succeeds on cur
Produced(step, cur, ia) ==
  LET res == FnCall(step.fn, <<cur>> \o ExtraArgs(step.args) \o ExtraArgs(ia)) IN
  IF res.v.k = "str" THEN res.v.s
  ELSE IF res.k = "promise" THEN ToStringAwaited(res.v) ELSE <<>>

RECURSIVE LeftFold(_, _, _)
LeftFold(steps, cur, ia) ==
  IF steps = <<>> THEN cur
  ELSE LeftFold(Tail(steps), Produced(Head(steps), cur, ia), ia)

\* the steps of a list that are enabled and do not fail, in order
Succeeding(steps) ==
  SelectSeq(steps, LAMBDA st : st.enabled /\ st.fn \notin FailingFns)

\* the current string at position j of a log: the latest string a step
\* produced before j, or the input
CurrentAt(run, j) ==
  LET prior == {i \in 1..(j - 1) : run.log[i].e = "settle" /\ run.log[i].v.k = "str"} IN
  IF prior = {} THEN InputString(run.str)
  ELSE run.log[CHOOSE i \in prior : \A h \in prior : h <= i].v.s

\* C1: Order preservation.  In an apply run on a pipeline whose steps are all
\* enabled and none of which fails, the j-th call is of step j-1, step 0
\* receives the string-coerced input, every later step receives exactly the
\* string the step before it produced, and a resolved run resolves to the left
\* fold of the steps over the input (the string the last step produced); such
\* a run fails only through a lifecycle hook that fails under the abort policy.
C1_OrderPreservation ==
  \A r \in RunIds :
    LET run == runs[r]
        steps == run.snap.steps
        calls == CallsOf(run)
        settles == SettlesOf(run)
    IN (/\ run.via = "apply"
        /\ Undisturbed(run)
        /\ \A j \in 1..Len(steps) : steps[j].enabled /\ steps[j].fn \notin FailingFns)
       => /\ \A j \in 1..Len(calls) :
               /\ calls[j].idx = j - 1
               /\ calls[j].args[1] = IF j = 1 THEN InputString(run.str) ELSE settles[j - 1].v.s
          /\ (Done(run) /\ run.out.k = "ok") =>
               /\ Len(calls) = Len(steps)
               /\ run.out.v = StrVal(LeftFold(steps, InputString(run.str), run.invokeArgs))
               /\ Len(settles) > 0 => run.out.v = settles[Len(settles)].v
          /\ (Done(run) /\ run.out.k = "fail") =>
               /\ run.out.v \in {ErrVal("E_before"), ErrVal("E_after")}
               /\ hooks.beforeApply = "fail" \/ hooks.afterApply = "fail"
               /\ run.snap.options.stopOnError # "false"

\* a resolved apply run over three enabled, succeeding steps with call-time arguments
C1_Witness ==
  \E r \in RunIds :
    LET run == runs[r] IN
    /\ run.via = "apply" /\ Undisturbed(run) /\ Done(run) /\ run.out.k = "ok"
    /\ Len(run.snap.steps) = 3
    /\ \A j \in 1..3 : run.snap.steps[j].enabled /\ run.snap.steps[j].fn \notin FailingFns
    /\ run.invokeArgs.k = "array"
    /\ Len(CallsOf(run)) = 3

\* C2: Abort semantics.  Under stopOnError true, once the step at index k has
\* thrown or its promise has rejected, onError is called exactly once for it
\* with (name, error, "step", k) when that hook is configured, nothing else
\* is called in the run afterwards (no step, no afterApply), no step of an
\* index above k was ever called, and the run ends rejected with that error.
C2_AbortSemantics ==
  \A r \in RunIds :
    LET run == runs[r]
        log == run.log
    IN (run.entered /\ run.snap.options.stopOnError = "true")
       => \A j \in 1..Len(log) :
            (log[j].e = "settle" /\ log[j].v.k = "err")
            => /\ SubSeq(log, j + 1, Len(log)) =
                    IF hooks.onError = "none" THEN <<>>
                    ELSE << Ev("onError", run.key, log[j].idx, <<>>, log[j].v, "step") >>
               /\ \A h \in 1..Len(log) : log[h].e = "call" => log[h].idx <= log[j].idx
               /\ log[j - 1].e = "call" /\ log[j - 1].idx = log[j].idx
               /\ run.pc \in {"errStep", "done"}
               /\ Done(run) => run.out = [k |-> "fail", v |-> log[j].v]

\* a run rejected by its step 1 while a step 2 exists, with onError and afterApply configured
C2_Witness ==
  \E r \in RunIds :
    LET run == runs[r] IN
    /\ run.entered /\ run.snap.options.stopOnError = "true"
    /\ Done(run) /\ run.out = [k |-> "fail", v |-> ErrVal("E_t")]
    /\ Len(run.snap.steps) = 3 /\ run.snap.steps[3].enabled
    /\ hooks.onError # "none" /\ hooks.afterApply # "none"
    /\ \E j \in 1..Len(run.log) : run.log[j].e = "settle" /\ run.log[j].idx = 1

\* C3: Continue semantics.  Under stopOnError false, after the step at index
\* k failed, onError is called (when configured), the next step called
\* receives exactly the string held before step k, the run always ends
\* resolved, and it resolves to the left fold of the steps that succeeded.
C3_ContinueSemantics ==
  \A r \in RunIds :
    LET run == runs[r]
        log == run.log
    IN (Undisturbed(run) /\ run.snap.options.stopOnError = "false")
       => /\ \A j \in 1..Len(log) :
               (log[j].e = "settle" /\ log[j].v.k = "err")
               => /\ hooks.onError # "none" =>
                       /\ j < Len(log)
                       /\ log[j + 1] = Ev("onError", run.key, log[j].idx, <<>>, log[j].v, "step")
                  /\ \A h \in (j + 1)..Len(log) :
                       (log[h].e = "call" /\ \A g \in (j + 1)..(h - 1) : log[g].e # "call")
                       => log[h].args[1] = log[j - 1].args[1]
          /\ Done(run) =>
               /\ run.out.k = "ok"
               /\ run.out.v = StrVal(LeftFold(Succeeding(run.snap.steps),
                                              InputString(run.str), run.invokeArgs))

\* a resolved run in which two steps failed and a later step ran
C3_Witness ==
  \E r \in RunIds :
    LET run == runs[r] IN
    /\ Undisturbed(run) /\ run.snap.options.stopOnError = "false"
    /\ Done(run) /\ run.out.k = "ok"
    /\ Cardinality({j \in 1..Len(run.log) : run.log[j].e = "settle" /\ run.log[j].v.k = "err"}) = 2
    /\ run.log[Len(run.log)].e = "settle" /\ run.log[Len(run.log)].v.k = "str"

\* the entry with the step at index i (from 0) taken out
Without(entry, i) == [entry EXCEPT !.steps = SpliceOut(entry.steps, i)]

\* C4: Disabled-step skip.  enable(name, i, false) leaves the step in the
\* store (same length, flag cleared), and an apply run on an entry whose step
\* i is disabled never calls that step and ends exactly as a run on the same
\* entry with step i removed.
C4_DisabledStepSkip ==
  /\ (last.op = "enable" /\ last.err = "ok" /\ MapHas(map, last.name)) =>
       LET steps == MapGet(map, last.name).steps IN
       /\ Len(steps) = last.arg.oldLen
       /\ steps[last.arg.index + 1].enabled = last.arg.enabled
  /\ \A r \in RunIds :
       LET run == runs[r] IN
       (run.via = "apply" /\ Undisturbed(run)) =>
         \A i \in 1..Len(run.snap.steps) :
           ~run.snap.steps[i].enabled =>
             /\ \A j \in 1..Len(run.log) : run.log[j].e = "call" => run.log[j].idx # i - 1
             /\ Done(run) =>
                  LET alone == Outcome(Without(run.snap, i - 1), InputString(run.str), run.invokeArgs)
                  IN run.out = [k |-> alone.k, v |-> alone.v]

\* a finished run on an entry whose first step, a working one, was disabled by enable
C4_Witness ==
  \E r \in RunIds :
    LET run == runs[r] IN
    /\ run.via = "apply" /\ Undisturbed(run) /\ Done(run)
    /\ nmut > 0
    /\ Len(run.snap.steps) >= 2
    /\ run.snap.steps[1].fn = "a" /\ ~run.snap.steps[1].enabled
    /\ Len(CallsOf(run)) >= 1

\* C5: Argument ordering.  Every step call of an apply or applyList run gets
\* the current string, then the step's own args in their order, then the
\* call-time invokeArgs in their order.
C5_ArgumentOrdering ==
  \A r \in RunIds :
    LET run == runs[r] IN
    Undisturbed(run) =>
      \A j \in 1..Len(run.log) :
        run.log[j].e = "call" =>
          LET step == run.snap.steps[run.log[j].idx + 1] IN
          run.log[j].args = <<CurrentAt(run, j)>> \o ExtraArgs(step.args) \o ExtraArgs(run.invokeArgs)

\* a step with its own argument called in a run with a call-time argument; also ad hoc
C5_Witness ==
  /\ \E r \in RunIds :
       LET run == runs[r] IN
       /\ Undisturbed(run) /\ run.via = "applyList"
       /\ \E j \in 1..Len(run.log) :
            /\ run.log[j].e = "call"
            /\ Len(run.log[j].args) = 3
            /\ run.log[j].args[2] = <<"s1">> /\ run.log[j].args[3] = <<"i1">>
            /\ \E h \in (j + 1)..Len(run.log) :
                 run.log[h].e = "call" /\ run.log[h].args = <<CurrentAt(run, h), <<"i1">> >>

\* C8: Strictly sequential execution.  In the log of a run every step call is
\* directly followed by the settling of that same step, or is the last event
\* while the run awaits that step; so at most one step is in progress.
C8_StrictlySequential ==
  \A r \in RunIds :
    LET run == runs[r]
        log == run.log
        open == Len(CallsOf(run)) - Len(SettlesOf(run))
    IN /\ \A j \in 1..Len(log) :
            log[j].e = "call" =>
              \/ j = Len(log) /\ run.pc = "step"
              \/ j < Len(log) /\ log[j + 1].e = "settle" /\ log[j + 1].idx = log[j].idx
       /\ open \in {0, 1}
       /\ open = 1 <=> run.pc = "step"

\* a run awaiting the promise of its third step after an earlier promise settled
C8_Witness ==
  \E r \in RunIds :
    LET run == runs[r] IN
    /\ run.pc = "step"
    /\ Len(CallsOf(run)) = 3
    /\ \E j \in 1..Len(run.log) :
         run.log[j].e = "settle" /\ run.log[j].name \in {"b", "r", "m"}

\* what register(n, steps, {stopOnError: soe}) followed by apply would run on
AsRegistered(run, soe) ==
  [steps |-> run.snap.steps, options |-> MergeOptions(defaults, soe)]
CallList(run) ==
  LET calls == CallsOf(run) IN
  [j \in 1..Len(calls) |-> [idx |-> calls[j].idx, args |-> calls[j].args]]
SameAs(run, alone) ==
  /\ run.out = [k |-> alone.k, v |-> alone.v]
  /\ CallList(run) = alone.calls

\* C10 as amended: a finished applyList run has the outcome and the step calls
\* of an apply on the same steps registered with {stopOnError: true}, whatever
\* the registry defaults, and its hooks are told the name "<adhoc>".
C10_AdhocStopsOnError ==
  \A r \in RunIds :
    LET run == runs[r] IN
    (run.via = "applyList" /\ run.entered /\ Done(run)) =>
      /\ SameAs(run, Outcome(AsRegistered(run, "true"), InputString(run.str), run.invokeArgs))
      /\ \A j \in 1..Len(run.log) :
           run.log[j].e \in {"before", "after", "onError"} => run.log[j].name = AdhocName

\* C10 as stated: the same as an apply on the steps registered without options
C10_AdhocAsRegistered ==
  \A r \in RunIds :
    LET run == runs[r] IN
    (run.via = "applyList" /\ run.entered /\ Done(run)) =>
      SameAs(run, Outcome(AsRegistered(run, "absent"), InputString(run.str), run.invokeArgs))

\* an applyList run rejected by a step on a registry constructed with stopOnError false
C10_Witness ==
  \E r \in RunIds :
    LET run == runs[r] IN
    /\ run.via = "applyList" /\ run.entered /\ Done(run)
    /\ defaults.stopOnError = "false"
    /\ run.out = [k |-> "fail", v |-> ErrVal("E_t")]
    /\ hooks.onError # "none"

\* the canonical record of a valid step-like value
Canonical(item) ==
  IF item.k = "fn"
  THEN [fn |-> item.fn, name |-> "undefined", args |-> NoArgs, enabled |-> TRUE]
  ELSE [fn |-> item.fn, name |-> item.name, args |-> item.args,
        enabled |-> IF item.enabled = "false" THEN FALSE ELSE TRUE]

Registered(n) == MapHas(map, n)
KeyCount(n) == Cardinality({j \in 1..Len(map) : map[j].key = n})

\* C6: Registration replaces wholesale.  Right after a successful
\* register(name, B, optB), whatever the name held before, the stored steps
\* are exactly the canonical records of B's items in B's order, the option in
\* effect is optB's stopOnError when given and the registry default otherwise,
\* and the name has one entry; an apply run started on a name works on the
\* entry stored at that moment and calls steps of that entry only.
C6_RegisterReplaces ==
  /\ (last.op = "register" /\ last.err = "ok") =>
       LET entry == MapGet(map, last.name)
           items == last.arg.fl.items
       IN /\ KeyCount(last.name) = 1
          /\ Len(entry.steps) = Len(items)
          /\ \A j \in 1..Len(items) : entry.steps[j] = Canonical(items[j])
          /\ entry.options.stopOnError =
               IF last.arg.opt = "absent" THEN defaults.stopOnError ELSE last.arg.opt
  /\ \A r \in RunIds :
       LET run == runs[r] IN
       (run.via = "apply" /\ Undisturbed(run) /\ Registered(run.key)) =>
         /\ run.snap = MapGet(map, run.key)
         /\ \A j \in 1..Len(run.log) :
              run.log[j].e = "call" => run.log[j].name = run.snap.steps[run.log[j].idx + 1].fn

\* a second register on a name whose first entry had another length, another
\* option value and had been changed by insert/removeAt/enable
C6_Witness ==
  /\ last.op = "register" /\ last.err = "ok" /\ last.arg.had
  /\ nmut > 0
  /\ last.arg.oldLen # Len(MapGet(map, last.name).steps)
  /\ last.arg.oldSoe # MapGet(map, last.name).options.stopOnError
  /\ last.arg.opt = "absent"

\* C7: Two-state lifecycle.  A name is registered exactly when the most
\* recent successful register/unregister on it was a register, and it has at
\* most one entry; insert, removeAt and enable on an unregistered name throw
\* the not-found error, apply on it ends rejected with the not-found error
\* without reaching the executor, and none of them creates an entry.
C7_TwoStateLifecycle ==
  /\ \A n \in Names :
       /\ Registered(n) <=> lastReg[n] = "register"
       /\ KeyCount(n) <= 1
  /\ \A j \in 1..Len(map) : map[j].key \in Names
  /\ last.op \in {"insert", "removeAt", "enable"} =>
       (last.err = "NotFound" <=> ~Registered(last.name))
  /\ \A r \in RunIds :
       LET run == runs[r] IN
       run.via = "apply" =>
         IF Registered(run.key)
         THEN run.entered
         ELSE ~run.entered /\ Done(run) /\ run.out = [k |-> "fail", v |-> ErrVal("NotFound")]
              /\ run.log = <<>>

\* apply on a name that was registered and then unregistered ends rejected
C7_Witness ==
  \E r \in RunIds :
    LET run == runs[r] IN
    /\ run.via = "apply" /\ run.key = "p" /\ lastReg["p"] = "unregister"
    /\ Done(run) /\ run.out = [k |-> "fail", v |-> ErrVal("NotFound")]
    /\ Registered("q")

\* C9: Concurrent apply calls do not block each other.  With two apply calls
\* on one name in flight, an activation that is not finished can always take
\* its next step whatever the other one is doing, every activation eventually
\* settles, and one whose entry nobody changed meanwhile settles exactly as
\* it would alone: with the outcome and the step calls that its entry, input
\* and invokeArgs determine.
C9_NoInterference ==
  \A r \in RunIds :
    LET run == runs[r] IN
    /\ Active(r) => ENABLED RunStep(r)
    /\ (Undisturbed(run) /\ Done(run)) =>
         SameAs(run, Outcome(run.snap, InputString(run.str), run.invokeArgs))

C9_ConcurrentApply ==
  /\ []C9_NoInterference
  /\ \A r \in RunIds : (Active(r) ~> Done(runs[r]))

\* one activation finished with its own result while the other, started
\* before that, is still suspended on a step with a different current string
C9_Witness ==
  /\ Done(runs[2]) /\ Undisturbed(runs[2]) /\ runs[2].out.k = "ok"
  /\ runs[1].pc = "step" /\ Undisturbed(runs[1])
  /\ Len(CallsOf(runs[2])) >= 2
  /\ runs[1].current # runs[2].current
  /\ runs[1].i < runs[2].i

\* the value a successful step delivered: returned, or the resolution of its promise
Delivered(call) == FnCall(call.name, call.args).v
\* the string a result value stands for when null and undefined read as empty
EmptyIfNullish(v) == IF v.k = "str" THEN v.s ELSE <<>>

\* C11: Sync/async unification.  After a step that succeeded, the current
\* string is the string the step delivered, or the empty string when it
\* delivered null or undefined, whether the step returned the value directly
\* or returned a promise resolving to it.
C11_SyncAsyncUnified ==
  \A r \in RunIds :
    LET log == runs[r].log IN
    \A j \in 2..Len(log) :
      (log[j].e = "settle" /\ log[j].v.k = "str")
      => log[j].v.s = EmptyIfNullish(Delivered(log[j - 1]))

\* a promise resolving to null or undefined has been awaited, so has a direct one
C11_Witness ==
  \E r \in RunIds :
    LET log == runs[r].log IN
    /\ Done(runs[r])
    /\ \E j \in 2..Len(log) :
         /\ log[j].e = "settle" /\ log[j - 1].name \in {"m", "v"}
         /\ Delivered(log[j - 1]).k \in {"null", "undef"}
    /\ \E j \in 2..Len(log) :
         /\ log[j].e = "settle" /\ log[j - 1].name \in {"n", "u"}

\* the positions of the events of kind e in a log
EventsAt(log, e) == {j \in 1..Len(log) : log[j].e = e}
\* the enabled steps of a list
EnabledSteps(steps) == SelectSeq(steps, LAMBDA st : st.enabled)

\* C12: Lifecycle-hook failure follows the error policy.  A beforeApply that
\* failed is reported to onError (when configured) with (name, error, "hook")
\* and no step index; under stopOnError true the run then ends rejected with
\* that error and no step is called, under stopOnError false every enabled
\* step is called, the first one with the original input.  An afterApply that
\* failed is reported the same way; under stopOnError true the run ends
\* rejected with that error although no step rejected it, under stopOnError
\* false it resolves to the final string.
C12_HookFailurePolicy ==
  \A r \in RunIds :
    LET run == runs[r]
        log == run.log
        stop == StopOnError(run.snap.options)
        calls == CallsOf(run)
    IN
    /\ (run.entered /\ hooks.beforeApply = "fail" /\ run.pc # "before") =>
         /\ log[1] = Ev("before", run.key, -1, <<InputString(run.str)>>, NoVal, "")
         /\ hooks.onError # "none" =>
              /\ Len(log) >= 2
              /\ log[2] = Ev("onError", run.key, -1, <<>>, ErrVal("E_before"), "hook")
         /\ stop => /\ run.pc \in {"errBefore", "done"}
                    /\ calls = <<>>
                    /\ Done(run) => run.out = [k |-> "fail", v |-> ErrVal("E_before")]
         /\ ~stop =>
              /\ calls # <<>> => calls[1].args[1] = InputString(run.str)
              /\ (Done(run) /\ Undisturbed(run)) =>
                   /\ Len(calls) = Len(EnabledSteps(run.snap.steps))
                   /\ \A j \in 1..Len(calls) :
                        calls[j].name = EnabledSteps(run.snap.steps)[j].fn
    /\ (run.entered /\ hooks.afterApply = "fail"
          /\ EventsAt(log, "after") # {} /\ run.pc # "after") =>
         LET a == CHOOSE j \in EventsAt(log, "after") : TRUE IN
         /\ EventsAt(log, "after") = {a}
         /\ log[a] = Ev("after", run.key, -1, <<run.current>>, NoVal, "")
         /\ Len(log) = IF hooks.onError = "none" THEN a ELSE a + 1
         /\ hooks.onError # "none" =>
              log[a + 1] = Ev("onError", run.key, -1, <<>>, ErrVal("E_after"), "hook")
         /\ run.pc \in {"errAfter", "done"}
         /\ Done(run) =>
              run.out = IF stop THEN [k |-> "fail", v |-> ErrVal("E_after")]
                        ELSE [k |-> "ok", v |-> StrVal(run.current)]

\* beforeApply failed and was swallowed, and the steps then ran from the input
C12_Witness ==
  \E r \in RunIds :
    LET run == runs[r] IN
    /\ run.entered /\ Done(run) /\ hooks.beforeApply = "fail" /\ hooks.onError = "ok"
    /\ ~StopOnError(run.snap.options)
    /\ Len(CallsOf(run)) = 3
    /\ run.out.k = "ok" /\ run.out.v.s # InputString(run.str)

\* afterApply failed under stopOnError true after every step had succeeded
C12_WitnessAfter ==
  \E r \in RunIds :
    LET run == runs[r] IN
    /\ run.entered /\ Done(run) /\ hooks.afterApply = "fail"
    /\ StopOnError(run.snap.options)
    /\ run.out = [k |-> "fail", v |-> ErrVal("E_after")]
    /\ Len(CallsOf(run)) = Len(run.snap.steps) /\ Len(CallsOf(run)) >= 2

\* a step-like value without a callable fn
LacksFn(item) == item.k = "bad" \/ item.fn = "nofn"
\* the step of the behaviour is a call of facade operation op
Called(op) == last' # last /\ last'.op = op
\* the call changed nothing in the registry and reached no hook
NothingDone == map' = map /\ runs' = runs /\ lastReg' = lastReg

\* what C13_ValidationErrors asks of one step
C13_ValidationStep ==
  /\ Called("register") =>
       LET c == last' IN
       /\ c.name \in BlankNames \cup NonStringNames => c.err = "InvalidName"
       /\ (c.name \in Names /\ c.arg.fl.k # "null") =>
            /\ (\E j \in 1..Len(c.arg.fl.items) : LacksFn(c.arg.fl.items[j]))
                 => c.err = "InvalidStep"
            /\ c.arg.fl.items = <<>> => c.err = "EmptyPipeline"
       /\ c.err # "ok" => NothingDone
  /\ (Called("insert") \/ Called("removeAt") \/ Called("enable")) =>
       LET c == last' IN
       /\ ~MapHas(map, c.name) => c.err = "NotFound"
       /\ (MapHas(map, c.name) /\ c.op # "insert"
            /\ (c.arg.index < 0 \/ c.arg.index >= Len(MapGet(map, c.name).steps)))
            => c.err = "IndexOutOfRange"
       /\ (MapHas(map, c.name) /\ c.op = "insert" /\ LacksFn(c.arg.item))
            => c.err = "InvalidStep"
       /\ c.err # "ok" => NothingDone
  /\ \A r \in RunIds : \A j \in 1..Len(runs'[r].log) :
       runs'[r].log[j].e = "onError" =>
         runs'[r].log[j].v \in {ErrVal("E_t"), ErrVal("E_r"), ErrVal("E_before"), ErrVal("E_after")}

\* C13: Validation errors are raised synchronously and never swallowed.
\* register with a non-string or blank name, with a step-like value lacking
\* a callable fn or with an empty list, insert/removeAt/enable on a name that
\* is not registered, and removeAt/enable with an index outside [0, length)
\* each end, within the call itself, with their error thrown to the caller;
\* the call changes no entry, starts nothing and no onError event is recorded.
C13_ValidationErrors == [][C13_ValidationStep]_vars

\* a register refused for a step lacking fn on a name that holds an entry,
\* with onError configured
C13_Witness ==
  /\ last.op = "register" /\ last.err = "InvalidStep" /\ last.arg.had
  /\ hooks.onError = "ok"

\* the step of the behaviour is a call of insert, removeAt or enable: op
Mutated(op) == nmut' = nmut + 1 /\ last'.op = op
\* every entry but that of name n is what it was
OthersKept(n) ==
  /\ MapKeys(map') = MapKeys(map)
  /\ \A j \in 1..Len(map) : map[j].key # n => map'[j] = map[j]
\* index clamped into [0, L]
Clamp(index, L) == IF index < 0 THEN 0 ELSE IF index > L THEN L ELSE index

\* what C14_InsertClamps asks of one step
C14_InsertStep ==
  Mutated("insert") =>
    LET c == last'
        n == c.name
    IN
    /\ c.err = "ok" <=> (MapHas(map, n) /\ ~LacksFn(c.arg.item))
    /\ c.err = "ok" =>
         LET old == MapGet(map, n).steps
             new == MapGet(map', n).steps
             L == Len(old)
             pos == Clamp(c.arg.index, L)
         IN /\ Len(new) = L + 1
            /\ new[pos + 1] = Canonical(c.arg.item)
            /\ \A j \in 1..pos : new[j] = old[j]
            /\ \A j \in (pos + 1)..L : new[j + 1] = old[j]
            /\ c.arg.index < 0 => new[1] = Canonical(c.arg.item)
            /\ c.arg.index > L => new[L + 1] = Canonical(c.arg.item)
            /\ MapGet(map', n).options = MapGet(map, n).options
            /\ OthersKept(n)

\* C14: insert clamps and inserts exactly one step.  A successful
\* insert(name, index, stepLike) on a list of length L leaves a list of length
\* L+1 with the canonical record of stepLike at position max(0, min(index, L)),
\* the steps before that position where they were and the steps from it on
\* one position up in the same order; the options and the other entries are
\* unchanged, and the call succeeds whenever the name is registered and the
\* step-like value is valid.
C14_InsertClamps == [][C14_InsertStep]_vars

\* a step was inserted in the middle of a list of two, and one before at the front
\* through a negative index
C14_Witness ==
  /\ last.op = "insert" /\ last.err = "ok" /\ last.arg.index = 1 /\ nmut = 2
  /\ Len(MapGet(map, last.name).steps) = 3
  /\ MapGet(map, last.name).steps[2].fn = "n"
  /\ MapGet(map, last.name).steps[3].fn # "n"

\* what C15_RemoveAtRange asks of one step
C15_RemoveAtStep ==
  (Mutated("removeAt") /\ MapHas(map, last'.name)) =>
    LET c == last'
        n == c.name
        old == MapGet(map, n).steps
        L == Len(old)
    IN
    /\ c.err \in {"ok", "IndexOutOfRange"}
    /\ c.err = "IndexOutOfRange" <=> (c.arg.index < 0 \/ c.arg.index >= L)
    /\ c.err = "IndexOutOfRange" => map' = map
    /\ c.err = "ok" =>
         LET new == MapGet(map', n).steps IN
         /\ Len(new) = L - 1
         /\ \A j \in 1..c.arg.index : new[j] = old[j]
         /\ \A j \in (c.arg.index + 1)..(L - 1) : new[j] = old[j + 1]
         /\ MapGet(map', n).options = MapGet(map, n).options
         /\ OthersKept(n)

\* C15: removeAt index range.  removeAt(name, index) on a registered list of
\* length L throws the out-of-range error exactly when index < 0 or
\* index >= L; otherwise the list loses exactly the step at that index: the
\* length becomes L-1, the steps before it stay, the steps after it move one
\* position down in the same order, and nothing else changes.
C15_RemoveAtRange == [][C15_RemoveAtStep]_vars

\* the first of three steps was removed
C15_Witness ==
  /\ last.op = "removeAt" /\ last.err = "ok" /\ last.arg.index = 0
  /\ Len(MapGet(map, last.name).steps) = 2
  /\ MapGet(map, last.name).steps[1].fn # MapGet(map, last.name).steps[2].fn

\* an enable call changes one flag and nothing else, and fails as removeAt does
EnableFrame ==
  Mutated("enable") =>
    LET c == last'
        n == c.name
    IN
    /\ c.err = "NotFound" <=> ~MapHas(map, n)
    /\ MapHas(map, n) =>
         LET old == MapGet(map, n).steps
             L == Len(old)
             i == c.arg.index
         IN
         /\ c.err = "IndexOutOfRange" <=> (i < 0 \/ i >= L)
         /\ c.err # "ok" => map' = map
         /\ c.err = "ok" =>
              LET new == MapGet(map', n).steps IN
              /\ Len(new) = L
              /\ new[i + 1] = [old[i + 1] EXCEPT !.enabled = c.arg.enabled]
              /\ \A j \in 1..L : j # i + 1 => new[j] = old[j]
              /\ MapGet(map', n).options = MapGet(map, n).options
              /\ OthersKept(n)

\* the step is enable(n, i, true) right after a successful enable(n, i, false)
ReEnabled ==
  /\ last.op = "enable" /\ last.err = "ok" /\ ~last.arg.enabled
  /\ Mutated("enable") /\ last'.err = "ok" /\ last'.arg.enabled
  /\ last'.name = last.name /\ last'.arg.index = last.arg.index
\* the entry of the name as it was before that enable(n, i, false)
BeforeDisable ==
  LET entry == MapGet(map, last.name) IN
  [entry EXCEPT !.steps = SetEnabled(entry.steps, last.arg.index, last.arg.was)]
\* apply on the name gives now what it gave before the enable(n, i, false)
Restored ==
  \A str \in InputVals, ia \in InvokeArgVals :
    Outcome(MapGet(map', last.name), CoerceInput(str), ia)
      = Outcome(BeforeDisable, CoerceInput(str), ia)

\* what C16_EnableOneFlag asks of one step
C16_EnableStep ==
  /\ EnableFrame
  /\ (ReEnabled /\ last.arg.was) => Restored /\ MapGet(map', last.name) = BeforeDisable

\* C16 as amended: enable(name, i, e) with i in range sets the enabled flag
\* of step i to e and changes nothing else (step count and order, fn, name
\* and args of every step, the flags of the other steps, the options, the
\* other entries); it fails exactly as removeAt does; and enable(name, i,
\* true) after enable(name, i, false) restores the apply behaviour the name
\* had before the two calls when step i was enabled before them.
C16_EnableOneFlag == [][C16_EnableStep]_vars

\* what C16_EnableRestores asks of one step
C16_StepAsStated ==
  /\ EnableFrame
  /\ ReEnabled => Restored

\* C16 as stated: the same, with enable(name, i, true) after enable(name, i,
\* false) restoring the original apply behaviour whatever flag step i had
C16_EnableRestores == [][C16_StepAsStated]_vars

\* a step registered enabled has been disabled and enabled again, and the
\* entry is the registered one
C16_Witness ==
  /\ last.op = "enable" /\ last.err = "ok" /\ last.arg.enabled /\ ~last.arg.was
  /\ nmut = 2 /\ last.name = "p"
  /\ MapGet(map, "p").steps = <<Canonical(BareFn("u"))>>
  /\ Registered("q")

\* the caller's edits that add, remove or reorder elements of its array
StructuralEdits == {"push", "pop", "reverse"}

\* what C17_GetCopies asks of one step
C17_GetStep ==
  /\ Called("get") =>
       LET c == last' IN
       /\ c.err = "ok"
       /\ IF MapHas(map, c.name)
          THEN /\ c.arg.ret = [k |-> "array", steps |-> MapGet(map, c.name).steps]
               /\ c.arg.ed \in StructuralEdits \cup {"none"} => map' = map
          ELSE /\ c.arg.ret.k = "null"
               /\ map' = map
  /\ \A r \in RunIds :
       (runs[r].pc = "idle" /\ runs'[r].entered) => runs'[r].snap = MapGet(map, runs'[r].key)

\* C17: get returns a copy of the step list.  For a registered name get
\* returns the stored steps in stored order; the caller adding, removing or
\* reordering elements of the returned list changes nothing in the registry,
\* so a later get returns the same steps and a later apply runs the same
\* steps; for a name that is not registered get returns null, throws nothing
\* and creates no entry.
C17_GetCopies == [][C17_GetStep]_vars

\* the caller reversed the two-step list it got, and the stored list is as it was
C17_Witness ==
  /\ last.op = "get" /\ last.name = "p" /\ last.arg.ed = "reverse"
  /\ last.arg.ret.k = "array" /\ Len(last.arg.ret.steps) = 2
  /\ EditList(last.arg.ret.steps, "reverse") # last.arg.ret.steps
  /\ MapGet(map, "p").steps = last.arg.ret.steps
  /\ nmut > 0

\* an entry with no step
Stepless(entry) == entry.steps = <<>>
\* what holds of the registry and its runs in every state
StepCountState ==
  /\ (last.op = "register" /\ last.err = "ok") => ~Stepless(MapGet(map, last.name))
  /\ \A r \in RunIds :
       LET run == runs[r] IN
       (run.via = "apply" /\ Undisturbed(run) /\ Stepless(run.snap)) =>
         /\ CallsOf(run) = <<>>
         /\ Done(run) =>
              IF StopOnError(run.snap.options) /\ "fail" \in {hooks.beforeApply, hooks.afterApply}
              THEN run.out.k = "fail" /\ run.out.v \in {ErrVal("E_before"), ErrVal("E_after")}
              ELSE run.out = [k |-> "ok", v |-> StrVal(InputString(run.str))]

\* what C18_StepCount asks of one step
C18_StepCountStep ==
  /\ StepCountState'
  /\ (Called("register") /\ last'.name \in Names /\ last'.arg.fl = ListArr(<<>>)) =>
       last'.err = "EmptyPipeline" /\ map' = map
  /\ (Mutated("removeAt") /\ last'.err = "ok") =>
       /\ MapHas(map', last'.name)
       /\ MapKeys(map') = MapKeys(map)

\* C18: Step-count invariant.  register with an empty list throws the
\* empty-pipeline error and creates no entry, so an entry has at least one
\* step right after a successful register; removeAt may take the last step
\* away, the name then stays registered, and apply on it calls no step and
\* resolves to the string-coerced input (it rejects only through a lifecycle
\* hook that fails under stopOnError true).
C18_StepCount == [][C18_StepCountStep]_vars

\* removeAt took the only step of a registered list away, and apply on the
\* name then resolved to its input after the hooks ran
C18_Witness ==
  \E r \in RunIds :
    LET run == runs[r] IN
    /\ run.via = "apply" /\ Undisturbed(run) /\ Done(run)
    /\ Registered(run.key) /\ Stepless(MapGet(map, run.key)) /\ Stepless(run.snap)
    /\ run.out = [k |-> "ok", v |-> StrVal(<<"x">>)]
    /\ hooks.afterApply = "ok"
    /\ nmut > 0

\* the calls of a plugin body made by the caller itself, one after another,
\* up to the first that throws
RECURSIVE Direct(_, _)
Direct(m, calls) ==
  IF calls = <<>> THEN Ret("ok", m)
  ELSE LET res == PluginCall(m, Head(calls)) IN
       IF res.err # "ok" THEN res ELSE Direct(res.map, Tail(calls))

\* what C19_UseCallsThrough asks of one step
C19_UseStep ==
  (Called("use") /\ last'.arg.plugin.k = "fn") =>
    LET pl == last'.arg.plugin
        direct == Direct(map, pl.calls)
    IN
    /\ map' = direct.map
    /\ last'.err = IF direct.err # "ok" THEN direct.err
                   ELSE IF pl.throws THEN "E_plugin" ELSE "ok"
    /\ UNCHANGED <<hooks, defaults, chain, runs, nmut>>

\* C19: use(plugin) is a plain call-through.  use runs the plugin function
\* once on the registry: afterwards the registry holds exactly what the
\* plugin's calls, made one after another up to the first that throws, leave
\* in it; an error thrown by one of those calls or by the plugin itself
\* reaches the caller of use as it is, with everything done before it still
\* in effect; use changes nothing else.
C19_UseCallsThrough == [][C19_UseStep]_vars

\* a plugin registered a name, disabled its step and then threw: the caller
\* got the plugin's error and the name is registered with the step disabled
C19_Witness ==
  /\ last.op = "use" /\ last.err = "E_plugin"
  /\ Registered("q") /\ ~MapGet(map, "q").steps[1].enabled
  /\ Registered("p")

\* the elements of a sequence
Range(seq) == {seq[j] : j \in 1..Len(seq)}
NoDuplicates(seq) == \A i, j \in 1..Len(seq) : seq[i] = seq[j] => i = j
\* the names whose most recent register/unregister was a register
CurrentNames == {n \in Names : lastReg[n] = "register"}

\* what C20_NamesMirror asks of one step
C20_NamesStep ==
  /\ Range(KeysArray(map')) = CurrentNames'
  /\ NoDuplicates(KeysArray(map'))
  /\ Called("names") =>
       /\ Range(last'.arg.ret) = CurrentNames /\ NoDuplicates(last'.arg.ret)
       /\ last'.arg.ret = KeysArray(map')
  /\ (Called("unregister") /\ last'.name \notin CurrentNames) =>
       last'.err = "ok" /\ map' = map
  /\ last'.op \notin {"register", "unregister", "use"} => KeysArray(map') = KeysArray(map)

\* C20: names() mirrors the store.  Whatever calls were made, names() returns
\* the currently registered names, each once; unregister of a name that is
\* not registered throws nothing and leaves the names and every entry as they
\* were; and the array names() returns stays the same, order included, over
\* every call that is not a register or unregister (made directly or by a
\* plugin).
C20_NamesMirror == [][C20_NamesStep]_vars

\* names() returned two names, the one registered first in front, after a
\* list had been changed in place
C20_Witness ==
  /\ last.op = "names" /\ last.arg.ret = <<"q", "p">>
  /\ nmut > 0
  /\ ~Stepless(MapGet(map, "p"))

\* the stopOnError value of a registration: the one given, else the default
Resolved(opt) == IF opt # "absent" THEN opt ELSE defaults.stopOnError
\* C21: Error-policy resolution.  The stopOnError value stored for a pipeline
\* is the one given in the options of its register call when one is given,
\* otherwise the default of the registry, which is the one given at
\* construction or true; it is the value an apply run of the pipeline
\* captures and it stays the stored one, whatever is called, for as long as
\* the run lasts; and an apply run in which a step fails resolves exactly
\* when that value is false and is rejected otherwise.
C21_PolicyResolution ==
  /\ defaults.stopOnError \in {"true", "false"}
  /\ (last.op = "register" /\ last.err = "ok") =>
       MapGet(map, last.name).options.stopOnError = Resolved(last.arg.opt)
  /\ \A r \in RunIds :
       LET run == runs[r] IN
       (run.via = "apply" /\ run.entered /\ ~run.dirty) =>
         /\ MapHas(map, run.key) /\ run.snap.options = MapGet(map, run.key).options
         /\ (Done(run) /\ \E j \in 1..Len(run.log) :
                            run.log[j].e = "settle" /\ run.log[j].v.k = "err") =>
              (run.out.k = "ok" <=> run.snap.options.stopOnError = "false")

\* on a registry constructed with stopOnError false, a run of a pipeline
\* registered with stopOnError true was rejected by its failing step
C21_Witness ==
  \E r \in RunIds :
    LET run == runs[r] IN
    /\ defaults.stopOnError = "false"
    /\ run.via = "apply" /\ Undisturbed(run) /\ Done(run)
    /\ run.snap.options.stopOnError = "true"
    /\ run.out = [k |-> "fail", v |-> ErrVal("E_t")]
    /\ Len(CallsOf(run)) = 2

\* on the same registry, a run of a pipeline registered without options went
\* on past two failing steps
C21_WitnessDefault ==
  \E r \in RunIds :
    LET run == runs[r] IN
    /\ defaults.stopOnError = "false"
    /\ run.via = "apply" /\ Undisturbed(run) /\ Done(run)
    /\ run.snap.options.stopOnError = "false" /\ run.out.k = "ok"
    /\ Len(CallsOf(run)) = 2 /\ Len(run.snap.steps) = 3

\* the value a pipeline of the chain hands to the next one
HandedOn(t) == IF t.out.k = "ok" THEN t.out.v ELSE t.input

\* C22: runTextChains chains pipelines in order.  The pipelines applied are
\* the requested names from the first on, in order; the first receives the
\* coerced input and each later one the output of the one before it, or,
\* when that one failed and stopOnError is false, the value held before it
\* started; unless stopOnError is false (true is the default), a failed
\* pipeline, an unregistered name included, is the last one applied and its
\* error is the failure of the chain; a chain that resolves has applied all
\* names and resolves with the value handed on by the last.
C22_ChainInOrder ==
  LET t == chain.trail
      n == Len(t)
  IN
  /\ chain.stop = (chain.opt # "false")
  /\ n <= Len(chain.req)
  /\ \A j \in 1..n : t[j].name = chain.req[j]
  /\ n >= 1 => t[1].input = StrVal(CoerceInput(chain.str))
  /\ \A j \in 2..n : t[j - 1].out.k # "none" /\ t[j].input = HandedOn(t[j - 1])
  /\ chain.pc = "wait" =>
       \E r \in RunIds : runs[r].via = "apply" /\ runs[r].key = t[n].name
                          /\ runs[r].str = t[n].input /\ runs[r].invokeArgs = chain.ia
  /\ \A j \in 1..n :
       (t[j].out.k = "fail" /\ chain.stop) => (j = n /\ chain.pc = "done" /\ chain.out = t[j].out)
  /\ \A j \in 1..n :
       (t[j].out.k = "fail" /\ ~chain.stop) => (j < n \/ chain.pc \in {"next", "done"})
  /\ (chain.pc = "done" /\ chain.out.k = "ok") =>
       /\ n = Len(chain.req)
       /\ chain.out.v = IF n = 0 THEN StrVal(CoerceInput(chain.str)) ELSE HandedOn(t[n])
  /\ (chain.pc = "done" /\ chain.out.k = "fail") => (chain.stop /\ n >= 1 /\ t[n].out = chain.out)

\* a chain with stopOnError false resolved after its second pipeline failed
\* on a value it had already changed, and the third got the value before it
C22_Witness ==
  /\ chain.pc = "done" /\ ~chain.stop /\ chain.out.k = "ok"
  /\ Len(chain.trail) = 3
  /\ chain.trail[1].out.k = "ok" /\ chain.trail[1].out.v # chain.trail[1].input
  /\ chain.trail[2].out = [k |-> "fail", v |-> ErrVal("E_t")]
  /\ chain.trail[3].input = chain.trail[1].out.v
  /\ chain.trail[3].out.k = "ok"
  /\ chain.out.v = chain.trail[3].out.v

\* a chain with the default stopOnError failed on an unregistered second
\* name and never applied the third
C22_WitnessStop ==
  /\ chain.pc = "done" /\ chain.opt = "absent"
  /\ Len(chain.req) = 3 /\ Len(chain.trail) = 2
  /\ chain.trail[1].out.k = "ok"
  /\ chain.out = [k |-> "fail", v |-> ErrVal("NotFound")]

\* the run r takes one turn of its step loop
LoopTurn(r) ==
  runs[r].pc = "loop" /\ (runs'[r].pc # "loop" \/ runs'[r].i # runs[r].i)
\* the step calls the run r makes in this step
NewCalls(r) ==
  LET old == CallsOf(runs[r])
      new == CallsOf(runs'[r])
  IN SubSeq(new, Len(old) + 1, Len(new))

\* what C23_LiveStepList asks of one step
C23_LiveStep ==
  \A r \in RunIds :
    LET run == runs[r] IN
    /\ (LoopTurn(r) /\ run.ref = "map") =>
         LET steps == MapGet(map, run.key).steps IN
         IF run.i >= Len(steps)
         THEN NewCalls(r) = <<>> /\ runs'[r].pc \in {"after", "done"}
         ELSE IF steps[run.i + 1].enabled
         THEN /\ Len(NewCalls(r)) = 1
              /\ NewCalls(r)[1].name = steps[run.i + 1].fn
              /\ NewCalls(r)[1].idx = run.i
         ELSE NewCalls(r) = <<>> /\ runs'[r].i = run.i + 1 /\ runs'[r].pc = "loop"
    /\ ~LoopTurn(r) => NewCalls(r) = <<>>
    /\ (runs'[r].via = "apply" /\ Undisturbed(runs'[r]) /\ Done(runs'[r])) =>
         /\ runs'[r].key \in Names
         /\ SameAs(runs'[r], Outcome(runs'[r].snap, InputString(runs'[r].str), runs'[r].invokeArgs))
         /\ Len(CallsOf(runs'[r])) <= Len(runs'[r].snap.steps)

\* C23 as amended: the step list of a registered pipeline is a live
\* structure.  Each turn of the loop of an in-flight apply reads the list as
\* it is stored at that moment: it ends the loop when its index has reached
\* the present length, skips the step now at its index when that step is now
\* disabled, and calls it otherwise; an insert, removeAt or enable made while
\* the run is suspended is therefore seen by the run.  A run during which no
\* such call was made on its name has the outcome and the step calls
\* determined by its input, its invokeArgs and the state at call time.
C23_LiveStepList == [][C23_LiveStep]_vars

\* C23: Determinism under concurrent step-list mutation.  A finished apply
\* run has the outcome and the step calls determined by its input, its
\* invokeArgs and the entry as it was when apply was called, whatever insert,
\* removeAt or enable calls were made on the name while it was suspended.
C23_CallTimeDeterminism ==
  \A r \in RunIds :
    LET run == runs[r] IN
    (run.via = "apply" /\ run.entered /\ Done(run)) =>
      SameAs(run, Outcome(run.snap, InputString(run.str), run.invokeArgs))

\* a run that finished after its second step had been disabled while it
\* awaited the first never called that step, enabled when apply was called
C23_Witness ==
  \E r \in RunIds :
    LET run == runs[r] IN
    /\ run.via = "apply" /\ run.entered /\ run.dirty /\ Done(run) /\ run.out.k = "ok"
    /\ last = Call("enable", "p", "ok", last.arg)
    /\ Len(run.snap.steps) = 2 /\ \A j \in 1..2 : run.snap.steps[j].enabled
    /\ Len(CallsOf(run)) = 1
    /\ Outcome(run.snap, InputString(run.str), run.invokeArgs).k = "ok"
    /\ Len(Outcome(run.snap, InputString(run.str), run.invokeArgs).calls) = 2

\* the entry the run r works on after this step is the one it captured
KeepsCaptured(r) ==
  LET run == runs'[r] IN
  IF run.ref = "map"
  THEN MapHas(map', run.key) /\ MapGet(map', run.key) = run.snap
  ELSE run.own = run.snap

\* what C24_CapturedEntry asks of one step
C24_SwapStep ==
  \A r \in RunIds :
    LET run == runs[r]
        nxt == runs'[r]
    IN
    /\ (nxt.via = "apply" /\ nxt.entered /\ nxt.pc \notin {"idle", "done"}) => KeepsCaptured(r)
    /\ (Called("register") \/ Called("unregister")) =>
         /\ nxt.pc = run.pc /\ nxt.snap = run.snap /\ nxt.current = run.current
         /\ nxt.i = run.i /\ nxt.log = run.log /\ nxt.out = run.out
    /\ (nxt.via = "apply" /\ nxt.entered /\ Done(nxt)) =>
         SameAs(nxt, Outcome(nxt.snap, InputString(nxt.str), nxt.invokeArgs))
    /\ (Called("apply") /\ run.pc = "idle" /\ nxt.pc # "idle") =>
         IF MapHas(map, nxt.key)
         THEN nxt.entered /\ nxt.snap = MapGet(map, nxt.key)
         ELSE ~nxt.entered /\ nxt.out = [k |-> "fail", v |-> ErrVal("NotFound")]

\* C24: Replacement or removal during a run does not affect it.  A register
\* or an unregister of the name of an apply in flight changes nothing of the
\* run: it goes on with the entry object it got when apply was called, and
\* ends with the outcome and the step calls which that entry's step list and
\* stopOnError option determine.  An apply called afterwards gets the entry
\* then stored under the name, or fails as not found when there is none.
C24_CapturedEntry == [][C24_SwapStep]_vars

\* a run that went on past a rejecting step and resolved on its three steps
\* after the name had been registered anew with one step and the abort policy
C24_Witness ==
  \E r \in RunIds :
    LET run == runs[r] IN
    /\ run.via = "apply" /\ run.entered /\ Done(run) /\ run.ref = "own"
    /\ lastReg[run.key] = "register" /\ MapHas(map, run.key)
    /\ Len(MapGet(map, run.key).steps) = 1
    /\ MapGet(map, run.key).options.stopOnError = "true"
    /\ run.snap.options.stopOnError = "false"
    /\ Len(CallsOf(run)) = 3 /\ run.out.k = "ok"

\* a run that resolved on its three steps after the name had been removed
C24_WitnessRemoved ==
  \E r \in RunIds :
    LET run == runs[r] IN
    /\ run.via = "apply" /\ run.entered /\ Done(run) /\ run.ref = "own"
    /\ lastReg[run.key] = "unregister" /\ ~MapHas(map, run.key)
    /\ Len(CallsOf(run)) = 3 /\ run.out.k = "ok"

\* the errors that steps and lifecycle hooks raised in a run, in order
Raised(run) ==
  LET IsError(e) == e.e = "onError" IN
  [j \in 1..Len(SelectSeq(run.log, IsError)) |-> SelectSeq(run.log, IsError)[j].v]

\* C25: A failing onError hook never changes the outcome.  On a registry
\* whose onError hook fails, a run never ends with the failure of onError:
\* under stopOnError true it is rejected with the first error a step or a
\* lifecycle hook raised, the one onError was called with; under stopOnError
\* false it calls every enabled step and resolves; either way it has the
\* outcome and the step calls that its entry, input and invokeArgs determine
\* whatever onError does.
C25_OnErrorAbsorbed ==
  \A r \in RunIds :
    LET run == runs[r] IN
    (hooks.onError = "fail" /\ Undisturbed(run)) =>
      /\ run.out.v # ErrVal("E_onError")
      /\ (Done(run) /\ run.out.k = "fail") =>
           /\ run.snap.options.stopOnError # "false"
           /\ Len(Raised(run)) = 1
           /\ run.out.v = Raised(run)[1]
           /\ run.log[Len(run.log)].e = "onError"
      /\ (Done(run) /\ run.snap.options.stopOnError = "false") =>
           /\ run.out.k = "ok"
           /\ Len(CallsOf(run)) = Len(EnabledSteps(run.snap.steps))
      /\ (Done(run) /\ Raised(run) # <<>> /\ run.snap.options.stopOnError # "false") =>
           run.out.k = "fail"
      /\ Done(run) => SameAs(run, Outcome(run.snap, InputString(run.str), run.invokeArgs))

\* under the abort policy a run was rejected with the error of its step
\* after the onError hook called for that error had failed
C25_Witness ==
  \E r \in RunIds :
    LET run == runs[r] IN
    /\ hooks.onError = "fail" /\ Undisturbed(run) /\ Done(run)
    /\ run.snap.options.stopOnError = "true"
    /\ run.out = [k |-> "fail", v |-> ErrVal("E_r")]
    /\ Raised(run) = <<ErrVal("E_r")>>

\* under the continue policy a run went on past two failing steps and a
\* failing afterApply, the onError hook failing each time, and resolved
C25_WitnessContinue ==
  \E r \in RunIds :
    LET run == runs[r] IN
    /\ hooks = Hooks("fail", "fail", "fail") /\ Undisturbed(run) /\ Done(run)
    /\ run.snap.options.stopOnError = "false"
    /\ Raised(run) = <<ErrVal("E_before"), ErrVal("E_r"), ErrVal("E_after")>>
    /\ run.out.k = "ok"
    /\ Len(CallsOf(run)) = 3

\* what the pipeline stored under k gives on the input "x"
ResultOf(m, k) == Outcome(MapGet(m, k), <<"x">>, NoArgs)

\* what C26_StepsNotShared asks of one step
C26_ShareStep ==
  /\ \A op \in {"insert", "removeAt", "enable"} :
       (Mutated(op) /\ last'.err = "ok") =>
         \A k \in Names \ {last'.name} :
           /\ MapHas(map', k) = MapHas(map, k)
           /\ MapHas(map, k) =>
                /\ MapGet(map', k) = MapGet(map, k)
                /\ ResultOf(map', k) = ResultOf(map, k)
  /\ Called("edit") =>
       /\ map' = map /\ runs' = runs
       /\ ResultOf(map', last'.name) = ResultOf(map, last'.name)

\* C26: Step records are never shared between pipelines.  A successful
\* insert, removeAt or enable on one name leaves the entry of every other
\* name, its steps, flags and options, and what an apply of it gives, as
\* they were, also when both names were registered from the same value or
\* were given the same insert; and a caller who, after register, pushes onto
\* the list it passed, writes the enabled field of an item of it or pushes
\* onto an item's args array leaves the stored pipeline as it was.
C26_StepsNotShared == [][C26_ShareStep]_vars

\* both names were registered from the same two-item list; the first step of
\* "p" has since been disabled and that of "q" has not
C26_Witness ==
  /\ lastReg = [n \in Names |-> "register"]
  /\ nmut = 1 /\ last.op = "enable" /\ last.err = "ok" /\ last.name = "p"
  /\ last.arg.index = 0 /\ last.arg.was = TRUE
  /\ MapGet(map, "q").steps = NormalizeToSteps(ListArr(<<ObjA1, ObjBoff>>)).steps
  /\ MapGet(map, "p").steps = SetEnabled(MapGet(map, "q").steps, 0, FALSE)
  /\ ResultOf(map, "p") # ResultOf(map, "q")

\* the caller pushed onto the args array of the item it had registered
C26_WitnessInput ==
  /\ last = Call("edit", "p", "ok", [ed |-> "args"])
  /\ MapGet(map, "p").steps = NormalizeToSteps(ListOne(ObjA1)).steps

\* the operations that change the registry when they succeed
Mutators == {"register", "insert", "removeAt", "enable"}

\* what C27_FailedCallsChangeNothing asks of one step
C27_FailStep ==
  (last' # last /\ last'.op \in Mutators /\ last'.err # "ok") =>
      /\ map' = map
      /\ runs' = runs
      /\ lastReg' = lastReg
      /\ last'.op = "register" =>
           /\ last'.arg.had = MapHas(map', last'.name)
           /\ last'.arg.had =>
                /\ Len(MapGet(map', last'.name).steps) = last'.arg.oldLen
                /\ MapGet(map', last'.name).options.stopOnError = last'.arg.oldSoe

\* C27: A failed mutating operation leaves the registry unchanged.  When
\* register throws, for an invalid name, a missing or empty list, or a list
\* with an invalid item at any position, the map is what it was: a name that
\* had an entry keeps it with its steps, flags and options, and a name that
\* had none gets none.  When insert throws on an invalid step, or removeAt
\* or enable on an index out of range or an unknown name, every pipeline is
\* what it was before the call.
C27_FailedCallsChangeNothing == [][C27_FailStep]_vars

\* a register of "p" with an invalid second item has just failed, and "p"
\* still holds the three steps and the option it was registered with
C27_Witness ==
  /\ last.op = "register" /\ last.name = "p" /\ last.err = "InvalidStep"
  /\ last.arg.fl = ListArr(<<BareFn("a"), ObjNoFn>>) /\ last.arg.opt = "true"
  /\ MapHas(map, "p")
  /\ Len(MapGet(map, "p").steps) = 3
  /\ MapGet(map, "p").options.stopOnError = "false"

\* an insert of an invalid step into an existing pipeline has just failed
C27_WitnessInsert ==
  /\ last.op = "insert" /\ last.err = "InvalidStep"
  /\ MapHas(map, last.name) /\ MapHas(map, "q")

\* an enable with an index out of range has just failed
C27_WitnessIndex ==
  /\ last.op = "enable" /\ last.err = "IndexOutOfRange"
  /\ MapHas(map, last.name)

\* the promise the call of this step returned: rejected, nothing having run
RejectedUnrun(run, err) ==
  /\ Done(run) /\ ~run.entered
  /\ run.out = [k |-> "fail", v |-> ErrVal(err)]
  /\ run.log = <<>>

\* what C28_PreRunFailures asks of one step
C28_PreRunStep ==
  /\ Called("apply") =>
       /\ last'.err = "ok"
       /\ map' = map /\ lastReg' = lastReg
       /\ \E r \in RunIds :
            /\ runs[r].pc = "idle" /\ runs'[r].via = "apply"
            /\ \A q \in RunIds \ {r} : runs'[q] = runs[q]
            /\ IF MapHas(map, last'.name)
               THEN runs'[r].entered /\ Len(runs'[r].log) >= 1
               ELSE RejectedUnrun(runs'[r], "NotFound")
  /\ Called("applyList") =>
       /\ last'.err = "ok"
       /\ map' = map /\ lastReg' = lastReg
       /\ \E r \in RunIds :
            /\ runs[r].pc = "idle" /\ runs'[r].via = "applyList"
            /\ \A q \in RunIds \ {r} : runs'[q] = runs[q]
            /\ LET fl == last'.arg.fl
                   bad == fl.k # "null" /\ \E j \in 1..Len(fl.items) : LacksFn(fl.items[j])
               IN IF fl.k = "null" THEN RejectedUnrun(runs'[r], "NoList")
                  ELSE IF bad THEN RejectedUnrun(runs'[r], "InvalidStep")
                  ELSE IF fl.items = <<>> THEN RejectedUnrun(runs'[r], "EmptyPipeline")
                  ELSE runs'[r].entered /\ Len(runs'[r].log) >= 1
  /\ \A r \in RunIds :
       (~runs[r].entered /\ runs[r].pc # "idle") =>
         (runs'[r] = runs[r] \/ runs'[r] = IdleRun)

\* C28: Pre-run failures bypass hooks and are delivered as a failed
\* deferred result.  apply on a name that is not registered, and applyList
\* with no list, a list with an invalid item or an empty list, throw nothing
\* to the caller: the call returns a promise that is rejected with the
\* error, no hook and no step having been called for it then or later, and
\* the registry is what it was; on a registry with hooks, a call that does
\* not fail so has beforeApply called before it returns.
C28_PreRunFailures == [][C28_PreRunStep]_vars

\* apply on the unregistered "q" was rejected, on a registry with hooks
\* where "p" is registered, and nothing was called
C28_Witness ==
  \E r \in RunIds :
    /\ hooks = Hooks("ok", "ok", "ok") /\ MapHas(map, "p")
    /\ last = Call("apply", "q", "ok", <<>>)
    /\ RejectedUnrun(runs[r], "NotFound")

\* applyList with an item that has no fn was rejected, and nothing was called
C28_WitnessAdhoc ==
  \E r \in RunIds :
    /\ hooks = Hooks("ok", "ok", "ok") /\ MapHas(map, "p")
    /\ last.op = "applyList" /\ last.arg.fl = ListArr(<<BareFn("a"), ObjNoFn>>)
    /\ RejectedUnrun(runs[r], "InvalidStep")

\* C29: Hook ordering within a run.  In a run that reached _runPipeline,
\* beforeApply, when configured, is called exactly once, as the first thing,
\* with the name and the coerced input; afterApply is called at most once,
\* after every step call of the run and its settling, with the current
\* string, which is what the run resolves to, and never after an error that
\* made the run abort; a run that ended rejected had onError, when
\* configured, called with that error as the last thing before.
C29_HookOrdering ==
  \A r \in RunIds :
    LET run == runs[r]
        log == run.log
        B == EventsAt(log, "before")
        A == EventsAt(log, "after")
        S == EventsAt(log, "call") \cup EventsAt(log, "settle")
        aborts == run.snap.options.stopOnError # "false"
    IN
    (run.entered /\ run.pc # "idle") =>
      /\ IF hooks.beforeApply = "none" THEN B = {}
         ELSE /\ B = {1}
              /\ log[1].name = run.key
              /\ log[1].args = <<CoerceInput(run.str)>>
      /\ hooks.afterApply = "none" => A = {}
      /\ Cardinality(A) <= 1
      /\ \A a \in A :
           /\ \A j \in S : j < a
           /\ Len(CallsOf(run)) = Len(SettlesOf(run))
           /\ log[a].name = run.key
           /\ log[a].args = <<run.current>>
           /\ (Done(run) /\ run.out.k = "ok") => run.out.v = StrVal(log[a].args[1])
           /\ aborts => \A j \in 1..(a - 1) : log[j].e # "onError"
      /\ (Done(run) /\ run.out.k = "fail" /\ hooks.onError # "none") =>
           /\ log[Len(log)].e = "onError"
           /\ log[Len(log)].v = run.out.v
           /\ log[Len(log)].name = run.key
      /\ ~Done(run) => run.out.k = "none"

\* a resolved run on a registry with all hooks: beforeApply first, three
\* step calls, an onError for the step that failed, afterApply last
C29_Witness ==
  \E r \in RunIds :
    LET run == runs[r] IN
    /\ hooks = Hooks("ok", "ok", "ok")
    /\ run.entered /\ Done(run) /\ run.out.k = "ok"
    /\ Len(CallsOf(run)) = 3
    /\ EventsAt(run.log, "onError") # {}
    /\ run.log[1].e = "before" /\ run.log[Len(run.log)].e = "after"

\* a run aborted by its second step: onError last, afterApply never called
C29_WitnessAborted ==
  \E r \in RunIds :
    LET run == runs[r] IN
    /\ hooks = Hooks("ok", "ok", "ok")
    /\ run.entered /\ Done(run) /\ run.out = [k |-> "fail", v |-> ErrVal("E_t")]
    /\ Len(CallsOf(run)) = 2
    /\ EventsAt(run.log, "after") = {}
    /\ run.log[Len(run.log)].e = "onError"

\* the step list the run works on, as it is now
LiveSteps(r) == RunEntry(r).steps
\* how many of the calls, and how many of the steps, are of the function f
CallsTo(run, f) == Cardinality({j \in 1..Len(CallsOf(run)) : CallsOf(run)[j].name = f})
StepsOf(steps, f) == Cardinality({j \in 1..Len(steps) : steps[j].fn = f})

\* the loop index only goes up: each index of the list is visited once, and
\* a run calls no more steps than the list has now
C30_BoundedLoop ==
  \A r \in RunIds :
    LET run == runs[r]
        calls == CallsOf(run)
    IN
    (run.entered /\ run.pc \notin {"idle", "done"}) =>
      /\ \A j \in 2..Len(calls) : calls[j].idx > calls[j - 1].idx
      /\ \A j \in 1..Len(calls) : calls[j].idx < run.i \/ (calls[j].idx = run.i /\ run.pc \in {"step", "errStep"})
      /\ run.i <= Len(LiveSteps(r))
      /\ Len(calls) <= Len(LiveSteps(r))
      /\ Undisturbed(run) =>
           \A j \in 1..Len(calls) : calls[j].name = run.snap.steps[calls[j].idx + 1].fn

====
